---- MODULE Spec2Model ----
(***************************************************************************)
(* Front end of the Rue language: the Lexer (source text -> tokens) and    *)
(* the backtracking recursive-descent Parser (tokens -> CST or the         *)
(* furthest ParserError).                                                  *)
(*                                                                         *)
(* A JavaScript string is the sequence of its UTF-16 code units (numbers).  *)
(* A token is the record [type, text, start, stop]; a tree is              *)
(* [type, start, stop, items].                                             *)
(* The parser object is the record [stack, error, thrown]: stack[1] is     *)
(* this.tokens (the constructor puts the very same array on the stack),    *)
(* error is the single error slot, and thrown is a history variable that   *)
(* lists every ParserError handed to throw(), in order.                    *)
(***************************************************************************)
EXTENDS Integers, Sequences, FiniteSets, TLC

VARIABLES
    stack,      \* Parser.stack (<<>> while no Parser has been constructed)
    error,      \* Parser.error
    thrown,     \* history: the errors passed to Parser.throw so far
    call,       \* the last public Parser call: its name, the stack on entry, its result
    ncalls,     \* number of public Parser calls made
    source,     \* Lexer.source
    text,       \* Lexer.text (the part of source not yet eaten)
    lexed,      \* the local array `tokens` of Lexer.tokens()
    skipped,    \* history: the spans for which Lexer.consume returned undefined
    lexResult   \* what Lexer.tokens() returned, once it has

vars == <<stack, error, thrown, call, ncalls, source, text, lexed, skipped, lexResult>>

parserVars == <<stack, error, thrown, call, ncalls>>

lexerVars == <<source, text, lexed, skipped, lexResult>>

(***************************************************************************)
(* Values shared by both halves.                                           *)
(***************************************************************************)
Null == [type |-> "null"]

NoMatch == [type |-> "undefined"]

IsTree(x) == "items" \in DOMAIN x

IsToken(x) == "text" \in DOMAIN x

Token(type, txt, start, stop) == [type |-> type, text |-> txt, start |-> start, stop |-> stop]

Max(a, b) == IF a >= b THEN a ELSE b

\* A method's outcome: the object (parser or lexer) afterwards and the value
\* returned.
Ret(p, r) == [p |-> p, r |-> r]

(***************************************************************************)
(* utils.ts                                                                *)
(***************************************************************************)
ParserError(message, content, start, stop) ==
    [type |-> "ParserError", message |-> message, content |-> content,
     start |-> start, stop |-> stop]

LexerError(message, content, start, stop) ==
    [type |-> "LexerError", message |-> message, content |-> content,
     start |-> start, stop |-> stop]

\* mutate() whose loop stops one item early
mutate_short(original, content) ==
    SubSeq(original, 1, 0) \o SubSeq(content, 1, Len(content) - 1)

\* original.length = 0; for (const item of content) original.push(item)
mutate(original, content) == SubSeq(original, 1, 0) \o content
(***************************************************************************)
(* Strings.  Units(s) is the JavaScript string written s: its code units.  *)
(***************************************************************************)
\* the characters of codes 32..95 and 97..126 (a TLA+ string cannot hold the
\* grave accent, code 96)
AsciiLow ==
    " !\"#$%&'()*+,-./0123456789:;<=>?@ABCDEFGHIJKLMNOPQRSTUVWXYZ[\\]^_"

AsciiHigh == "abcdefghijklmnopqrstuvwxyz{|}~"

\* the code of each character of chars, the i-th one having code base + i
CodeTable(chars, base) ==
    [c \in {SubSeq(chars, i, i) : i \in 1..Len(chars)} |->
        base + CHOOSE i \in 1..Len(chars) : SubSeq(chars, i, i) = c]

Codes ==
    ("\t" :> 9) @@ ("\n" :> 10) @@ ("\f" :> 12) @@ ("\r" :> 13)
    @@ CodeTable(AsciiLow, 31) @@ CodeTable(AsciiHigh, 96)

\* c.charCodeAt(0) for a one-character string c
Ord(c) == Codes[c]

Units(s) == [i \in 1..Len(s) |-> Ord(SubSeq(s, i, i))]

\* text.slice(from): from is a 0-based offset
slice(txt, from) == SubSeq(txt, from + 1, Len(txt))

\* text.startsWith(prefix)
startsWith(txt, prefix) ==
    Len(txt) >= Len(prefix) /\ SubSeq(txt, 1, Len(prefix)) = prefix

\* String.fromCharCode(number): ToUint16 of the number, NaN giving 0
fromCharCode(number) == IF number.nan THEN 0 ELSE number.value % 65536

(***************************************************************************)
(* lexer.ts: the keyword and operator tables.                              *)
(***************************************************************************)
keywords ==
    [and |-> "AndKeyword", or |-> "OrKeyword", not |-> "NotKeyword",
     for |-> "ForKeyword", while |-> "WhileKeyword", continue |-> "ContinueKeyword",
     break |-> "BreakKeyword", return |-> "ReturnKeyword", macro |-> "MacroKeyword",
     public |-> "PublicKeyword", private |-> "PrivateKeyword",
     protected |-> "ProtectedKeyword", do |-> "DoKeyword", is |-> "IsKeyword",
     as |-> "AsKeyword", if |-> "IfKeyword", else |-> "ElseKeyword",
     try |-> "TryKeyword", catch |-> "CatchKeyword", throw |-> "ThrowKeyword",
     finally |-> "FinallyKeyword", defer |-> "DeferKeyword", def |-> "DefKeyword",
     val |-> "ValKeyword", var |-> "VarKeyword", in |-> "InKeyword",
     match |-> "MatchKeyword", from |-> "FromKeyword", import |-> "ImportKeyword",
     export |-> "ExportKeyword", extern |-> "ExternKeyword", type |-> "TypeKeyword",
     enum |-> "EnumKeyword", struct |-> "StructKeyword", class |-> "ClassKeyword",
     void |-> "VoidType", int |-> "IntegerType", i8 |-> "IntegerType",
     i16 |-> "IntegerType", i32 |-> "IntegerType", i64 |-> "IntegerType",
     uint |-> "UnsignedIntegerType", u8 |-> "UnsignedIntegerType",
     u16 |-> "UnsignedIntegerType", u32 |-> "UnsignedIntegerType",
     u64 |-> "UnsignedIntegerType", float |-> "FloatType", f32 |-> "FloatType",
     f64 |-> "FloatType", bool |-> "BooleanType", string |-> "StringType",
     true |-> "BoolLiteral", false |-> "BoolLiteral", super |-> "SuperKeyword",
     this |-> "ThisKeyword", null |-> "NullKeyword"]

\* keywords is an object literal: it inherits the members of Object.prototype,
\* which `in` finds and [] reads like own properties.
ObjectPrototype ==
    {"constructor", "hasOwnProperty", "isPrototypeOf", "propertyIsEnumerable",
     "toLocaleString", "toString", "valueOf", "__defineGetter__",
     "__defineSetter__", "__lookupGetter__", "__lookupSetter__", "__proto__"}

\* the own and the inherited members of keywords: <<key, keywords[key]>>
keywordEntries ==
    {<<Units(k), keywords[k]>> : k \in DOMAIN keywords}
    \cup {<<Units(k), "Object.prototype." \o k>> : k \in ObjectPrototype}

\* key in keywords
inKeywords(key) == \E entry \in keywordEntries : entry[1] = key

\* keywords[key], for a key that is in keywords
keywordsGet(key) == (CHOOSE entry \in keywordEntries : entry[1] = key)[2]

operators ==
    << <<"==", "EqualOperator">>, <<"!=", "NotEqualOperator">>,
       <<"+=", "PlusAssignOperator">>, <<"-=", "MinusAssignOperator">>,
       <<"*=", "TimesAssignOperator">>, <<"/=", "DivideAssignOperator">>,
       <<"%=", "ModuloAssignOperator">>, <<"&=", "AndAssignOperator">>,
       <<"|=", "OrAssignOperator">>, <<"^=", "XorAssignOperator">>,
       <<"?=", "CoalesceAssignOperator">>, <<"<<=", "LeftShiftAssignOperator">>,
       <<">>>=", "UnsignedRightShiftAssignOperator">>,
       <<">>=", "RightShiftAssignOperator">>, <<"=>", "ArrowOperator">>,
       <<"=", "AssignOperator">>, <<"+", "PlusOperator">>, <<"-", "MinusOperator">>,
       <<"*", "TimesOperator">>, <<"/", "DivideOperator">>, <<"%", "ModuloOperator">>,
       <<"~", "NotOperator">>, <<"?:", "CoalesceOperator">>, <<"&", "AndOperator">>,
       <<"|", "OrOperator">>, <<"^", "XorOperator">>, <<"<<", "LeftShiftOperator">>,
       <<">>>", "UnsignedRightShiftOperator">>, <<">>", "RightShiftOperator">>,
       <<"<=", "LessThanEqualOperator">>, <<">=", "GreaterThanEqualOperator">>,
       <<"<", "LessThanOperator">>, <<">", "GreaterThanOperator">>,
       <<"?.", "OptionalAccessOperator">>, <<"?", "OptionalOperator">>,
       <<"...", "InclusiveRangeOperator">>, <<"..", "ExclusiveRangeOperator">>,
       <<".", "AccessOperator">>, <<"(", "OpenParenthesis">>,
       <<")", "CloseParenthesis">>, <<"[", "OpenBracket">>, <<"]", "CloseBracket">>,
       <<"{", "OpenBrace">>, <<"}", "CloseBrace">>, <<";", "SemicolonPunctuator">>,
       <<":", "ColonPunctuator">>, <<",", "CommaPunctuator">>,
       <<"_", "UnderscorePunctuator">> >>

\* Object.entries that lists the properties last to first
entries_reversed(object) ==
    <<>> \o [i \in 1..Len(object) |->
                <<Units(object[Len(object) + 1 - i][1]), object[Len(object) + 1 - i][2]>>]

\* Object.entries(object): the [key, value] pairs in insertion order
entries(object) ==
    <<>> \o [i \in 1..Len(object) |-> <<Units(object[i][1]), object[i][2]>>]

operatorEntries == entries(operators)
(***************************************************************************)
(* lexer.ts: the regular expressions of consume().  Each gives the length  *)
(* of match[0], 0 when the expression does not match (none of them matches *)
(* the empty string).  Characters are written as their codes.              *)
(***************************************************************************)
\* [\r\n\f\v\t ]
Whitespace == {13, 10, 12, 11, 9, 32}

\* what `.` does not match: \n \r    
LineTerminators == {10, 13, 8232, 8233}

\* [0-9]
Digits == 48..57

\* [a-zA-Z]
Letters == (97..122) \cup (65..90)

\* [a-zA-Z0-9]
LettersDigits == (97..122) \cup (65..90) \cup (48..57)

\* [0-9a-fA-F]
HexDigits == (48..57) \cup (97..102) \cup (65..70)

\* [0-9A-F]
UpperHexDigits == (48..57) \cup (65..70)

\* the first index from i on whose character is not in class
RECURSIVE star(_, _, _)
star(txt, i, class) ==
    IF i <= Len(txt) /\ txt[i] \in class THEN star(txt, i + 1, class) ELSE i

\* the first index from i on whose character is in class
RECURSIVE starNot(_, _, _)
starNot(txt, i, class) ==
    IF i <= Len(txt) /\ txt[i] \notin class THEN starNot(txt, i + 1, class) ELSE i

\* /^[\r\n\f\v\t ]/
matchWhitespace(txt) == IF Len(txt) > 0 /\ txt[1] \in Whitespace THEN 1 ELSE 0

\* /^\/\/.*/
matchLineComment(txt) ==
    IF startsWith(txt, <<47, 47>>) THEN starNot(txt, 3, LineTerminators) - 1 ELSE 0

\* the first index from i on at which "*/" begins, 0 when there is none
RECURSIVE findClose(_, _)
findClose(txt, i) ==
    IF i + 1 > Len(txt) THEN 0
    ELSE IF txt[i] = 42 /\ txt[i + 1] = 47 THEN i
    ELSE findClose(txt, i + 1)

\* the length of a match that ends with the two characters at index close
upTo(close) == IF close > 0 THEN close + 1 ELSE 0

\* a block comment that the end of the text closes as well
matchBlockComment_open(txt) ==
    IF startsWith(txt, <<47, 42>>)
    THEN IF findClose(txt, 3) > 0 THEN upTo(findClose(txt, 3)) ELSE Len(txt)
    ELSE 0

\* /^\/\*[^]*?\*\//
matchBlockComment(txt) ==
    IF startsWith(txt, <<47, 42>>) THEN upTo(findClose(txt, 3)) ELSE 0

\* _? at index i: the index after it
underscore(txt, i) == IF i <= Len(txt) /\ txt[i] = 95 THEN i + 1 ELSE i

\* (?:_?[a-zA-Z0-9]+)* from index i: the index after the match
RECURSIVE identifierGroups(_, _)
identifierGroups(txt, i) ==
    IF star(txt, underscore(txt, i), LettersDigits) > underscore(txt, i)
    THEN identifierGroups(txt, star(txt, underscore(txt, i), LettersDigits))
    ELSE i

\* /^[a-zA-Z](?:_?[a-zA-Z0-9]+)*/
matchIdentifier(txt) ==
    IF Len(txt) > 0 /\ txt[1] \in Letters THEN identifierGroups(txt, 2) - 1 ELSE 0

\* the length of a match whose last part is the non-empty run from..to-1
run(from, to) == IF to > from THEN to - 1 ELSE 0

\* /^0[xX][0-9a-fA-F]+/, /^0[oO][0-7]+/, /^0[bB][0-1]+/
matchRadix(txt, letters, digits) ==
    IF Len(txt) >= 3 /\ txt[1] = 48 /\ txt[2] \in letters
    THEN run(3, star(txt, 3, digits)) ELSE 0

\* [+\-]? at index i: the index after it
sign(txt, i) == IF i <= Len(txt) /\ txt[i] \in {43, 45} THEN i + 1 ELSE i

\* the end of the exponent whose digits are from..to-1, i when it has none
exponentEnd(i, from, to) == IF to > from THEN to ELSE i

\* (?:[eE][+\-]?[0-9]+)? from index i: the index after the match
exponent(txt, i) ==
    IF i <= Len(txt) /\ txt[i] \in {101, 69}
    THEN exponentEnd(i, sign(txt, i + 1), star(txt, sign(txt, i + 1), Digits))
    ELSE i

\* \.[0-9]+(?:[eE][+\-]?[0-9]+)? from index dot, after the digits 1..dot-1:
\* the length of the whole match
fraction(txt, dot, to) ==
    IF dot > 1 /\ dot <= Len(txt) /\ txt[dot] = 46 /\ to > dot + 1
    THEN exponent(txt, to) - 1 ELSE 0

\* /^[0-9]+\.[0-9]+(?:[eE][+\-]?[0-9]+)?/
matchFloat(txt) ==
    fraction(txt, star(txt, 1, Digits), star(txt, star(txt, 1, Digits) + 1, Digits))

\* (?:[eE][+\-]?[0-9]+)? after the digits 1..to-1: the length of the whole match
integer(txt, to) == IF to > 1 THEN exponent(txt, to) - 1 ELSE 0

\* /^[0-9]+(?:[eE][+\-]?[0-9]+)?/
matchInt(txt) == integer(txt, star(txt, 1, Digits))

\* the test with [0-9a-fA-F] for [0-9A-F]
testUpperHex_anyCase(hex, n) ==
    Len(hex) = n /\ \A i \in 1..Len(hex) : hex[i] \in HexDigits

\* /^[0-9A-F]{n}$/.test(hex)
testUpperHex(hex, n) ==
    Len(hex) = n /\ \A i \in 1..Len(hex) : hex[i] \in UpperHexDigits

\* the value of a hexadecimal digit
hexValue(c) ==
    IF c \in Digits THEN c - 48 ELSE IF c \in 97..102 THEN c - 87 ELSE c - 55

\* A number above 0x10FFFF is only compared with 0x10FFFF or reduced modulo
\* 2^16, so it is kept as 0x110000 plus its residue modulo 2^16.
reduced(n) == IF n > 1114111 THEN 1114112 + (n % 65536) ELSE n

\* the number written by the hexadecimal digits from index i on, after acc
RECURSIVE hexDigits(_, _, _)
hexDigits(txt, i, acc) ==
    IF i <= Len(txt) /\ txt[i] \in HexDigits
    THEN hexDigits(txt, i + 1, reduced(acc * 16 + hexValue(txt[i])))
    ELSE acc

\* StrWhiteSpaceChar, which parseInt skips
StrWhiteSpace ==
    {9, 10, 11, 12, 13, 32, 160, 5760, 8232, 8233, 8239, 8287, 12288, 65279}
    \cup (8192..8202)

\* 0x or 0X at index i: the index after it
prefix(txt, i) ==
    IF i + 1 <= Len(txt) /\ txt[i] = 48 /\ txt[i + 1] \in {120, 88} THEN i + 2 ELSE i

\* the number read from index i on, negated under a minus sign; NaN when no
\* digit is there
number(txt, i, negative) ==
    IF star(txt, i, HexDigits) = i THEN [nan |-> TRUE, value |-> 0]
    ELSE [nan |-> FALSE,
          value |-> IF negative THEN 0 - hexDigits(txt, i, 0) ELSE hexDigits(txt, i, 0)]

\* the number read after the white space, which ends at index i
signed(txt, i) ==
    number(txt, prefix(txt, sign(txt, i)), i <= Len(txt) /\ txt[i] = 45)

\* parseInt(string, 16): leading white space, a sign and a 0x prefix are
\* skipped, then the longest run of hexadecimal digits is read
parseInt16(string) == signed(string, star(string, 1, StrWhiteSpace))

(***************************************************************************)
(* lexer.ts: class Lexer.  lx is the lexer object [source, text].          *)
(***************************************************************************)
\* constructor
Lexer(src) == [source |-> src, text |-> src]

Lexer_index(lx) == Len(lx.source) - Len(lx.text)

\* eat() that leaves the last of the characters in the text
Lexer_eat_short(lx, chars) == [lx EXCEPT !.text = slice(@, chars - 1)]

Lexer_eat(lx, chars) == [lx EXCEPT !.text = slice(@, chars)]

\* a token whose stop is read before eat(): stop = start
matched_early(lx, type, length) ==
    Ret(Lexer_eat(lx, length),
        Token(type, SubSeq(lx.text, 1, length), Lexer_index(lx), Lexer_index(lx)))

\* eat(match[0].length); return {type, text: match[0], start, stop: this.index()}
matched(lx, type, length) ==
    Ret(Lexer_eat(lx, length),
        Token(type, SubSeq(lx.text, 1, length), Lexer_index(lx), Lexer_index(Lexer_eat(lx, length))))

\* for (i = 0; ...) { hex += text[i]; if (text[i] === '}') break; }
bracedHex(txt) ==
    SubSeq(txt, 1, IF starNot(txt, 1, {125}) <= Len(txt)
                   THEN starNot(txt, 1, {125}) ELSE Len(txt))

Char(code) == [type |-> "char", code |-> code]

\* \xHH and \uHHHH: hex is this.text.slice(0, n)
hexEscape(lx, start, hex, n, message) ==
    IF ~testUpperHex(hex, n)
    THEN Ret(lx, LexerError(message, Null, start, Lexer_index(lx)))
    ELSE Ret(Lexer_eat(lx, n), Char(fromCharCode(parseInt16(hex))))

\* \u{...}: lx is the lexer after eat(1) for the brace, hex the characters
\* collected by the for loop
bracedEscape(lx, start, hex) ==
    IF Len(hex) = 0 \/ hex[Len(hex)] # 125
    THEN Ret(lx, LexerError("Invalid or lowercase unicode escape sequence",
                            Null, start, Lexer_index(lx)))
    ELSE IF ~parseInt16(SubSeq(hex, 1, Len(hex) - 1)).nan
            /\ parseInt16(SubSeq(hex, 1, Len(hex) - 1)).value > 1114111
    THEN Ret(lx, LexerError("Out of range unicode escape sequence",
                            Null, start, Lexer_index(lx)))
    ELSE Ret(Lexer_eat(lx, Len(hex)),
             Char(fromCharCode(parseInt16(SubSeq(hex, 1, Len(hex) - 1)))))

\* The escape sequence after the backslash: escape is the character after it
\* and lx the lexer after that character.  The lexer afterwards and the code
\* unit appended (as Char), or the LexerError returned.
escapeSequence(lx, start, escape) ==
    CASE escape = 110 -> Ret(lx, Char(10))      \* n
      [] escape = 114 -> Ret(lx, Char(13))      \* r
      [] escape = 102 -> Ret(lx, Char(12))      \* f
      [] escape = 118 -> Ret(lx, Char(11))      \* v
      [] escape = 116 -> Ret(lx, Char(9))       \* t
      [] escape = 98 -> Ret(lx, Char(8))        \* b
      [] escape = 48 -> Ret(lx, Char(0))        \* 0
      [] escape = 120 ->                        \* x
            hexEscape(lx, start, SubSeq(lx.text, 1, IF Len(lx.text) < 2 THEN Len(lx.text) ELSE 2),
                      2, "Invalid or lowercase hexadecimal escape sequence")
      [] escape = 117 /\ Len(lx.text) > 0 /\ lx.text[1] = 123 ->      \* u{
            bracedEscape(Lexer_eat(lx, 1), start, bracedHex(Lexer_eat(lx, 1).text))
      [] escape = 117 /\ ~(Len(lx.text) > 0 /\ lx.text[1] = 123) ->   \* u
            hexEscape(lx, start, SubSeq(lx.text, 1, IF Len(lx.text) < 4 THEN Len(lx.text) ELSE 4),
                      4, "Invalid or lowercase unicode escape sequence")
      [] OTHER -> Ret(lx, Char(escape))

\* while (this.text.length > 0) { ... } of the string literal branch, and what
\* follows it; string is the text collected so far, the opening quote first
RECURSIVE stringLiteral(_, _, _)

\* the outcome of an escape sequence: go on with the loop, or return the error
escaped(sequence, start, string) ==
    IF sequence.r.type = "char"
    THEN stringLiteral(sequence.p, start, Append(string, sequence.r.code))
    ELSE sequence

\* a loop body whose token text is the whole string, quotes included
stringChar_raw(lx, start, string, char) ==
    IF char = 92
    THEN IF Len(lx.text) = 0
         THEN Ret(lx, LexerError("Unexpected end of escape", Null, start, Lexer_index(lx)))
         ELSE escaped(escapeSequence(Lexer_eat(lx, 1), start, lx.text[1]), start, string)
    ELSE IF char = string[1]
         THEN Ret(lx, Token("StringLiteral", Append(string, char), start, Lexer_index(lx)))
         ELSE stringLiteral(lx, start, Append(string, char))

\* one iteration of the loop: char has been read and eaten
stringChar(lx, start, string, char) ==
    IF char = 92
    THEN IF Len(lx.text) = 0
         THEN Ret(lx, LexerError("Unexpected end of escape", Null, start, Lexer_index(lx)))
         ELSE escaped(escapeSequence(Lexer_eat(lx, 1), start, lx.text[1]), start, string)
    ELSE IF char = string[1]
         THEN Ret(lx, Token("StringLiteral", SubSeq(string, 2, Len(string)),
                            start, Lexer_index(lx)))
         ELSE stringLiteral(lx, start, Append(string, char))

stringLiteral(lx, start, string) ==
    IF Len(lx.text) = 0
    THEN Ret(lx, LexerError("Unterminated string literal", Null, start, Lexer_index(lx)))
    ELSE stringChar(Lexer_eat(lx, 1), start, string, lx.text[1])

\* the indices of the entries of operatorEntries that text starts with
startingEntries(txt) ==
    {i \in 1..Len(operatorEntries) : startsWith(txt, operatorEntries[i][1])}

\* find() that returns the last entry the text starts with
find_last(txt) ==
    IF startingEntries(txt) = {} THEN 0
    ELSE CHOOSE i \in startingEntries(txt) : \A j \in startingEntries(txt) : i >= j

\* operatorEntries.find((entry) => this.text.startsWith(entry[0])): the index
\* of the first such entry, 0 when there is none
find(txt) ==
    IF startingEntries(txt) = {} THEN 0
    ELSE CHOOSE i \in startingEntries(txt) : \A j \in startingEntries(txt) : i <= j

\* a ?? b for two match lengths
orElse(a, b) == IF a > 0 THEN a ELSE b

\* if (match) { eat(match[0].length); return the token } else ...
matchOr(lx, type, length, otherwise) ==
    IF length > 0 THEN matched(lx, type, length) ELSE otherwise

\* the identifier branch
word(lx, length, otherwise) ==
    IF length = 0 THEN otherwise
    ELSE IF inKeywords(SubSeq(lx.text, 1, length))
    THEN matched(lx, keywordsGet(SubSeq(lx.text, 1, length)), length)
    ELSE matched(lx, "Identifier", length)

\* the operator branch and the error after it
operatorOr(lx, entry) ==
    IF entry > 0
    THEN matched(lx, operatorEntries[entry][2], Len(operatorEntries[entry][1]))
    ELSE Ret(lx, LexerError("Unexpected character", <<lx.text[1]>>,
                            Lexer_index(lx), Lexer_index(lx) + 1))

\* the string literal branch and the branches after it
quoted(lx) ==
    IF lx.text[1] \in {39, 34}
    THEN stringLiteral(Lexer_eat(lx, 1), Lexer_index(lx), <<lx.text[1]>>)
    ELSE operatorOr(lx, find(lx.text))

\* the branches after the white space and comments
lexeme(lx) ==
    word(lx, matchIdentifier(lx.text),
    matchOr(lx, "HexadecimalLiteral", matchRadix(lx.text, {120, 88}, HexDigits),
    matchOr(lx, "OctalLiteral", matchRadix(lx.text, {111, 79}, 48..55),
    matchOr(lx, "BinaryLiteral", matchRadix(lx.text, {98, 66}, 48..49),
    matchOr(lx, "FloatLiteral", matchFloat(lx.text),
    matchOr(lx, "IntLiteral", matchInt(lx.text),
    quoted(lx)))))))

\* a skip step that returns what it matched as a token
skipOr_token(lx, skip) == IF skip > 0 THEN matched(lx, "Comment", skip) ELSE lexeme(lx)

\* if (match = whitespace ?? line comment ?? block comment) { eat; return undefined }
skipOr(lx, skip) == IF skip > 0 THEN Ret(Lexer_eat(lx, skip), NoMatch) ELSE lexeme(lx)

Lexer_consume(lx) ==
    IF Lexer_index(lx) >= Len(lx.source)
    THEN Ret(lx, LexerError("Unexpected end of file", <<>>, Lexer_index(lx), Lexer_index(lx)))
    ELSE skipOr(lx, orElse(matchWhitespace(lx.text),
                    orElse(matchLineComment(lx.text), matchBlockComment(lx.text))))

(***************************************************************************)
(* parser.ts: the cursor stack.  p is the parser object.                   *)
(***************************************************************************)
\* constructor: this.tokens = tokens.slice(); this.stack = [this.tokens]
NewParser(tokens) ==
    [stack |-> <<SubSeq(tokens, 1, Len(tokens))>>, error |-> Null, thrown |-> <<>>]

\* a constructor that keeps the caller's array itself as this.tokens: what the
\* parser does to its bottom view is done to the array of the caller
Argument_shared(tokens, p) == p.stack[1]

\* The array that was passed to the constructor, as its caller finds it when
\* the parser object is p: this.tokens is tokens.slice(), another array, and
\* shift() and mutate() reach the arrays of the stack only.
Argument(tokens, p) == tokens

current(p) == p.stack[Len(p.stack)]

parent(p) == p.stack[Len(p.stack) - 1]

push(p) == [p EXCEPT !.stack = Append(@, SubSeq(current(p), 1, Len(current(p))))]

pop(p, update) ==
    LET tokens == current(p)
        rest == SubSeq(p.stack, 1, Len(p.stack) - 1)
    IN IF update
       THEN [p EXCEPT !.stack = [rest EXCEPT ![Len(rest)] = mutate(@, tokens)]]
       ELSE [p EXCEPT !.stack = rest]

\* throw() with `>` for `>=`: at equal starts the earlier error is kept
throw_strict(p, err, doPop) ==
    LET q == [p EXCEPT !.error = IF p.error = Null \/ err.start > p.error.start
                                 THEN err ELSE @,
                       !.thrown = Append(@, err)]
    IN IF doPop THEN pop(q, FALSE) ELSE q

\* throw() that keeps the latest error whatever its start
throw_latest(p, err, doPop) ==
    LET q == [p EXCEPT !.error = err, !.thrown = Append(@, err)]
    IN IF doPop THEN pop(q, FALSE) ELSE q

throw(p, err, doPop) ==
    LET q == [p EXCEPT !.error = IF p.error = Null \/ err.start >= p.error.start
                                 THEN err ELSE @,
                       !.thrown = Append(@, err)]
    IN IF doPop THEN pop(q, FALSE) ELSE q

\* start() that reads the end of the token in place of its start
start_end(p, tokens) ==
    IF Len(tokens) > 0 THEN tokens[1].stop
    ELSE IF Len(p.stack[1]) > 0 THEN p.stack[1][Len(p.stack[1])].stop
    ELSE 0

start(p, tokens) ==
    IF Len(tokens) > 0 THEN tokens[1].start
    ELSE IF Len(p.stack[1]) > 0 THEN p.stack[1][Len(p.stack[1])].start
    ELSE 0

stop(p, tokens) ==
    IF Len(tokens) > 0 THEN tokens[1].stop
    ELSE IF Len(p.stack[1]) > 0 THEN p.stack[1][Len(p.stack[1])].stop
    ELSE 0

\* tree() that takes both ends from the parent view
tree_flat(p, type, items) ==
    Ret(pop(p, TRUE),
        [type |-> type, start |-> start(p, parent(p)), stop |-> start(p, parent(p)),
         items |-> items])

tree(p, type, items) ==
    Ret(pop(p, TRUE),
        [type |-> type, start |-> start(p, parent(p)), stop |-> start(p, current(p)),
         items |-> items])

\* consume() that takes the last token out of the view and returns the first
consume_last(p, type) ==
    LET tokens == current(p)
    IN IF Len(tokens) > 0 /\ tokens[1].type = type
       THEN Ret([p EXCEPT !.stack[Len(p.stack)] = SubSeq(tokens, 1, Len(tokens) - 1)],
                tokens[1])
       ELSE Ret(p, NoMatch)

consume(p, type) ==
    LET tokens == current(p)
    IN IF Len(tokens) > 0 /\ tokens[1].type = type
       THEN Ret([p EXCEPT !.stack[Len(p.stack)] = Tail(tokens)], tokens[1])
       ELSE Ret(p, NoMatch)

\* consume(A) ?? consume(B) ?? ... : the first type of the list that matches
RECURSIVE consumeFirst(_, _)
consumeFirst(p, types) ==
    IF types = <<>> THEN Ret(p, NoMatch)
    ELSE LET c == consume(p, Head(types))
         IN IF c.r # NoMatch THEN c ELSE consumeFirst(c.p, Tail(types))

\* a failure that commits the speculative view: pop() for pop(false)
fail_committing(p, message) ==
    Ret(pop(throw(p, ParserError(message, Null, start(p, current(p)), stop(p, current(p))),
                  FALSE), TRUE),
        NoMatch)

\* return this.throw(new ParserError(message, null, this.start(), this.stop()))
fail(p, message) ==
    Ret(throw(p, ParserError(message, Null, start(p, current(p)), stop(p, current(p))), TRUE),
        NoMatch)

(***************************************************************************)
(* parser.ts: the productions.  Each takes the parser object and returns   *)
(* Ret(parser afterwards, tree | NoMatch).  The definitions of a LET are   *)
(* evaluated only where the IF chain below them reaches them, in the       *)
(* order of the statements of the method.                                  *)
(*                                                                         *)
(* The call stack of the JavaScript engine is explicit.  While a method    *)
(* runs, the parser record carries two more fields: `answers`, the         *)
(* outcomes of the calls this activation has already made, in order, and   *)
(* `pending`, the call it is waiting for.  A method body is run again      *)
(* each time one of its calls has returned: Call hands out the recorded    *)
(* outcomes first, and the first call without one becomes `pending`; what  *)
(* the body does after that is discarded by Step.                          *)
(***************************************************************************)
Object(p) == [stack |-> p.stack, error |-> p.error, thrown |-> p.thrown]

Activation(p, answers) ==
    [stack |-> p.stack, error |-> p.error, thrown |-> p.thrown,
     answers |-> answers, pending |-> Null]

\* A call of a production by a production: this.parseX() is Call("parseX", p).
Call(name, p) ==
    IF p.pending # Null THEN Ret(p, NoMatch)
    ELSE IF p.answers # <<>>
         THEN Ret(Activation(Head(p.answers).p, Tail(p.answers)), Head(p.answers).r)
    ELSE Ret([p EXCEPT !.pending = [name |-> name, p |-> Object(p)]], NoMatch)

\* A loop's outcome: the parser afterwards, the items collected, and whether
\* the loop left the method through a `return this.throw(...)`.
Loop(p, result, returned) == [p |-> p, result |-> result, returned |-> returned]

RECURSIVE parseBody_loop(_, _)
parseBody_loop(p, result) ==
    LET statement == Call("parseStatement", p)
    IN IF statement.r = NoMatch THEN Loop(statement.p, result, FALSE)
       ELSE parseBody_loop(statement.p, Append(result, statement.r))

parseBody(p) ==
    LET loop == parseBody_loop(push(p), <<>>)
    IN tree(loop.p, "Body", loop.result)

parseStatement_alternatives(p) ==
    LET a1 == Call("parseLabeledStatement", p)
        a2 == Call("parseFieldStatement", a1.p)
        a3 == Call("parseExpressionStatement", a2.p)
        a4 == Call("parseDefStatement", a3.p)
        a5 == Call("parseIfStatement", a4.p)
        a6 == Call("parseWhileStatement", a5.p)
        a7 == Call("parseMatchStatement", a6.p)
        a8 == Call("parseDoStatement", a7.p)
        a9 == Call("parseForStatement", a8.p)
        a10 == Call("parseReturnStatement", a9.p)
        a11 == Call("parseContinueStatement", a10.p)
        a12 == Call("parseBreakStatement", a11.p)
        a13 == Call("parseBlockStatement", a12.p)
        a14 == Call("parseEmptyStatement", a13.p)
    IN IF a1.r # NoMatch THEN a1 ELSE IF a2.r # NoMatch THEN a2
       ELSE IF a3.r # NoMatch THEN a3 ELSE IF a4.r # NoMatch THEN a4
       ELSE IF a5.r # NoMatch THEN a5 ELSE IF a6.r # NoMatch THEN a6
       ELSE IF a7.r # NoMatch THEN a7 ELSE IF a8.r # NoMatch THEN a8
       ELSE IF a9.r # NoMatch THEN a9 ELSE IF a10.r # NoMatch THEN a10
       ELSE IF a11.r # NoMatch THEN a11 ELSE IF a12.r # NoMatch THEN a12
       ELSE IF a13.r # NoMatch THEN a13 ELSE a14

parseStatement(p) ==
    LET statement == parseStatement_alternatives(push(p))
    IN IF statement.r = NoMatch THEN fail(statement.p, "Expected statement")
       ELSE tree(statement.p, "Statement", <<statement.r>>)

parseLabeledStatement(p) ==
    LET identifier == consume(push(p), "Identifier")
        colon == consume(identifier.p, "ColonPunctuator")
        statement == Call("parseStatement", colon.p)
    IN IF identifier.r = NoMatch THEN fail(identifier.p, "Expected labeled statement")
       ELSE IF colon.r = NoMatch THEN fail(colon.p, "Expected \":\" after label")
       ELSE IF statement.r = NoMatch THEN fail(statement.p, "Expected statement")
       ELSE tree(statement.p, "LabeledStatement", <<identifier.r, statement.r>>)

RECURSIVE parseBlockStatement_loop(_, _)
parseBlockStatement_loop(p, result) ==
    LET statement == Call("parseStatement", p)
    IN IF statement.r = NoMatch THEN Loop(statement.p, result, FALSE)
       ELSE parseBlockStatement_loop(statement.p, Append(result, statement.r))

parseBlockStatement(p) ==
    LET open == consume(push(p), "OpenBrace")
        loop == parseBlockStatement_loop(open.p, <<>>)
        close == consume(loop.p, "CloseBrace")
    IN IF open.r = NoMatch THEN fail(open.p, "Expected block statement")
       ELSE IF close.r = NoMatch THEN fail(close.p, "Unterminated block statement")
       ELSE tree(close.p, "BlockStatement", loop.result)

\* parseIfStatement that never looks for an else clause
parseIfStatement_short(p) ==
    LET keyword == consume(push(p), "IfKeyword")
        open == consume(keyword.p, "OpenParenthesis")
        condition == Call("parseExpressionSequence", open.p)
        close == consume(condition.p, "CloseParenthesis")
        statement == Call("parseStatement", close.p)
    IN IF keyword.r = NoMatch THEN fail(keyword.p, "Expected if statement")
       ELSE IF open.r = NoMatch THEN fail(open.p, "Expected if condition")
       ELSE IF condition.r = NoMatch THEN fail(condition.p, "Expected expression sequence")
       ELSE IF close.r = NoMatch THEN fail(close.p, "Unterminated if condition")
       ELSE IF statement.r = NoMatch THEN fail(statement.p, "Expected statement")
       ELSE tree(statement.p, "IfStatement", <<condition.r, statement.r>>)

parseIfStatement(p) ==
    LET keyword == consume(push(p), "IfKeyword")
        open == consume(keyword.p, "OpenParenthesis")
        condition == Call("parseExpressionSequence", open.p)
        close == consume(condition.p, "CloseParenthesis")
        statement == Call("parseStatement", close.p)
        else == consume(statement.p, "ElseKeyword")
        other == Call("parseStatement", else.p)
    IN IF keyword.r = NoMatch THEN fail(keyword.p, "Expected if statement")
       ELSE IF open.r = NoMatch THEN fail(open.p, "Expected if condition")
       ELSE IF condition.r = NoMatch THEN fail(condition.p, "Expected expression sequence")
       ELSE IF close.r = NoMatch THEN fail(close.p, "Unterminated if condition")
       ELSE IF statement.r = NoMatch THEN fail(statement.p, "Expected statement")
       ELSE IF else.r = NoMatch
            THEN tree(else.p, "IfStatement", <<condition.r, statement.r>>)
       ELSE IF other.r = NoMatch THEN fail(other.p, "Expected statement")
       ELSE tree(other.p, "IfStatement", <<condition.r, statement.r, other.r>>)

parseWhileStatement(p) ==
    LET keyword == consume(push(p), "WhileKeyword")
        open == consume(keyword.p, "OpenParenthesis")
        condition == Call("parseExpressionSequence", open.p)
        close == consume(condition.p, "CloseParenthesis")
        statement == Call("parseStatement", close.p)
    IN IF keyword.r = NoMatch THEN fail(keyword.p, "Expected while statement")
       ELSE IF open.r = NoMatch THEN fail(open.p, "Expected while condition")
       ELSE IF condition.r = NoMatch THEN fail(condition.p, "Expected expression sequence")
       ELSE IF close.r = NoMatch THEN fail(close.p, "Unterminated while condition")
       ELSE IF statement.r = NoMatch THEN fail(statement.p, "Expected statement")
       ELSE tree(statement.p, "WhileStatement", <<condition.r, statement.r>>)

\* `match` is the local flag of parseMatchStatement; it is false on every path.
RECURSIVE parseMatchStatement_loop(_, _)
parseMatchStatement_loop(p, result) ==
    LET option == Call("parseMatchOption", p)
    IN IF option.r = NoMatch THEN Loop(option.p, result, FALSE)
       ELSE parseMatchStatement_loop(option.p, Append(result, option.r))

\* parseMatchStatement that leaves an empty fallback Body out of the tree
parseMatchStatement_optional(p) ==
    LET keyword == consume(push(p), "MatchKeyword")
        open == consume(keyword.p, "OpenParenthesis")
        value == Call("parseExpressionSequence", open.p)
        close == consume(value.p, "CloseParenthesis")
        brace == consume(close.p, "OpenBrace")
        loop == parseMatchStatement_loop(brace.p, <<value.r>>)
        fallback == Call("parseBody", loop.p)
        result == IF fallback.r # NoMatch /\ fallback.r.items # <<>>
                  THEN Append(loop.result, fallback.r)
                  ELSE loop.result
        end == consume(fallback.p, "CloseBrace")
    IN IF keyword.r = NoMatch THEN fail(keyword.p, "Expected match statement")
       ELSE IF open.r = NoMatch THEN fail(open.p, "Expected match value")
       ELSE IF value.r = NoMatch THEN fail(value.p, "Expected expression sequence")
       ELSE IF close.r = NoMatch THEN fail(close.p, "Unterminated match value")
       ELSE IF brace.r = NoMatch THEN fail(brace.p, "Expected match body")
       ELSE IF end.r = NoMatch THEN fail(end.p, "Unterminated match body")
       ELSE tree(end.p, "MatchStatement", result)

parseMatchStatement(p) ==
    LET keyword == consume(push(p), "MatchKeyword")
        open == consume(keyword.p, "OpenParenthesis")
        value == Call("parseExpressionSequence", open.p)
        close == consume(value.p, "CloseParenthesis")
        brace == consume(close.p, "OpenBrace")
        match == FALSE
        loop == parseMatchStatement_loop(brace.p, <<value.r>>)
        fallback == Call("parseBody", loop.p)
        result == IF fallback.r # NoMatch THEN Append(loop.result, fallback.r)
                  ELSE loop.result
        end == consume(fallback.p, "CloseBrace")
    IN IF keyword.r = NoMatch THEN fail(keyword.p, "Expected match statement")
       ELSE IF open.r = NoMatch THEN fail(open.p, "Expected match value")
       ELSE IF value.r = NoMatch THEN fail(value.p, "Expected expression sequence")
       ELSE IF close.r = NoMatch THEN fail(close.p, "Unterminated match value")
       ELSE IF brace.r = NoMatch THEN fail(brace.p, "Expected match body")
       ELSE IF fallback.r = NoMatch /\ ~match
            THEN fail(fallback.p, "Expected match options or fallback")
       ELSE IF end.r = NoMatch THEN fail(end.p, "Unterminated match body")
       ELSE tree(end.p, "MatchStatement", result)

parseMatchOption(p) ==
    LET expression == Call("parseAssignmentExpression", push(p))
        arrow == consume(expression.p, "ArrowOperator")
        body == Call("parseStatement", arrow.p)
    IN IF expression.r = NoMatch THEN fail(expression.p, "Expected match option")
       ELSE IF arrow.r = NoMatch THEN fail(arrow.p, "Expected \"=>\"")
       ELSE IF body.r = NoMatch THEN fail(body.p, "Expected match option body")
       ELSE tree(body.p, "MatchOption", <<expression.r, body.r>>)

parseDefStatement(p) ==
    LET keyword == consume(push(p), "DefKeyword")
        identifier == consume(keyword.p, "Identifier")
        parameters == Call("parseParameters", identifier.p)
        colon == consume(parameters.p, "ColonPunctuator")
        returns == Call("parseUnaryType", colon.p)
        head == IF colon.r = NoMatch THEN <<identifier.r, parameters.r>>
                ELSE <<identifier.r, parameters.r, returns.r>>
        q == IF colon.r = NoMatch THEN colon.p ELSE returns.p
        block == Call("parseBlockStatement", q)
        empty == Call("parseEmptyStatement", block.p)
        statement == IF block.r # NoMatch THEN block ELSE empty
    IN IF keyword.r = NoMatch THEN fail(keyword.p, "Expected def statement")
       ELSE IF identifier.r = NoMatch THEN fail(identifier.p, "Expected identifier")
       ELSE IF parameters.r = NoMatch THEN fail(parameters.p, "Expected parameters")
       ELSE IF colon.r # NoMatch /\ returns.r = NoMatch THEN fail(returns.p, "Expected type")
       ELSE IF statement.r = NoMatch THEN fail(statement.p, "Expected def body")
       ELSE tree(statement.p, "DefStatement", Append(head, statement.r))

RECURSIVE parseParameters_loop(_, _)
parseParameters_loop(p, result) ==
    LET comma == IF Len(result) > 0 THEN consume(p, "CommaPunctuator") ELSE Ret(p, NoMatch)
        parameter == Call("parseParameter", comma.p)
    IN IF Len(result) > 0 /\ comma.r = NoMatch THEN Loop(comma.p, result, FALSE)
       ELSE IF parameter.r = NoMatch
            THEN IF Len(result) = 0 THEN Loop(parameter.p, result, FALSE)
                 ELSE Loop(fail(parameter.p, "Expected parameter").p, result, TRUE)
       ELSE parseParameters_loop(parameter.p, Append(result, parameter.r))

parseParameters(p) ==
    LET open == consume(push(p), "OpenParenthesis")
        loop == parseParameters_loop(open.p, <<>>)
        close == consume(loop.p, "CloseParenthesis")
    IN IF open.r = NoMatch THEN fail(open.p, "Expected parameters")
       ELSE IF loop.returned THEN Ret(loop.p, NoMatch)
       ELSE IF close.r = NoMatch THEN fail(close.p, "Unterminated parameters")
       ELSE tree(close.p, "Parameters", loop.result)

parseParameter(p) ==
    LET item == consumeFirst(push(p), <<"Identifier", "InclusiveRangeOperator">>)
        colon == consume(item.p, "ColonPunctuator")
        type == Call("parseUnaryType", colon.p)
    IN IF item.r = NoMatch THEN fail(item.p, "Expected parameter")
       ELSE IF item.r.type # "Identifier" THEN tree(item.p, "Parameter", <<item.r>>)
       ELSE IF colon.r = NoMatch THEN fail(colon.p, "Expected \":\" after parameter name")
       ELSE IF type.r = NoMatch THEN fail(type.p, "Expected type")
       ELSE tree(type.p, "Parameter", <<item.r, type.r>>)

parseDoStatement(p) ==
    LET keyword == consume(push(p), "DoKeyword")
        statement == Call("parseStatement", keyword.p)
        while == consume(statement.p, "WhileKeyword")
        open == consume(while.p, "OpenParenthesis")
        condition == Call("parseExpressionSequence", open.p)
        close == consume(condition.p, "CloseParenthesis")
    IN IF keyword.r = NoMatch THEN fail(keyword.p, "Expected do statement")
       ELSE IF statement.r = NoMatch THEN fail(statement.p, "Expected statement")
       ELSE IF while.r = NoMatch THEN fail(while.p, "Expected while clause")
       ELSE IF open.r = NoMatch THEN fail(open.p, "Expected do condition")
       ELSE IF condition.r = NoMatch THEN fail(condition.p, "Expected expression sequence")
       ELSE IF close.r = NoMatch THEN fail(close.p, "Unterminated while condition")
       ELSE tree(close.p, "DoStatement", <<statement.r, condition.r>>)

parseForStatement(p) ==
    LET keyword == consume(push(p), "ForKeyword")
        open == consume(keyword.p, "OpenParenthesis")
        identifier == consume(open.p, "Identifier")
        in == consume(identifier.p, "InKeyword")
        expression == Call("parseAssignmentExpression", in.p)
        close == consume(expression.p, "CloseParenthesis")
        statement == Call("parseStatement", close.p)
    IN IF keyword.r = NoMatch THEN fail(keyword.p, "Expected for statement")
       ELSE IF open.r = NoMatch THEN fail(open.p, "Expected for iterator")
       ELSE IF identifier.r = NoMatch THEN fail(identifier.p, "Expected identifier")
       ELSE IF in.r = NoMatch THEN fail(in.p, "Expected in clause")
       ELSE IF expression.r = NoMatch THEN fail(expression.p, "Expected iterator expression")
       ELSE IF close.r = NoMatch THEN fail(close.p, "Unterminated for iterator")
       ELSE IF statement.r = NoMatch THEN fail(statement.p, "Expected statement")
       ELSE tree(statement.p, "ForStatement", <<identifier.r, expression.r, statement.r>>)

parseReturnStatement(p) ==
    LET keyword == consume(push(p), "ReturnKeyword")
        value == Call("parseExpressionSequence", keyword.p)
        semicolon == consume(value.p, "SemicolonPunctuator")
    IN IF keyword.r = NoMatch THEN fail(keyword.p, "Expected return statement")
       ELSE IF semicolon.r = NoMatch THEN fail(semicolon.p, "Expected semicolon")
       ELSE tree(semicolon.p, "ReturnStatement",
                 IF value.r # NoMatch THEN <<value.r>> ELSE <<>>)

parseContinueStatement(p) ==
    LET keyword == consume(push(p), "ContinueKeyword")
        identifier == consume(keyword.p, "Identifier")
        semicolon == consume(identifier.p, "SemicolonPunctuator")
    IN IF keyword.r = NoMatch THEN fail(keyword.p, "Expected continue statement")
       ELSE IF semicolon.r = NoMatch THEN fail(semicolon.p, "Expected semicolon")
       ELSE tree(semicolon.p, "ContinueStatement",
                 IF identifier.r # NoMatch THEN <<identifier.r>> ELSE <<>>)

parseBreakStatement(p) ==
    LET keyword == consume(push(p), "BreakKeyword")
        identifier == consume(keyword.p, "Identifier")
        semicolon == consume(identifier.p, "SemicolonPunctuator")
    IN IF keyword.r = NoMatch THEN fail(keyword.p, "Expected break statement")
       ELSE IF semicolon.r = NoMatch THEN fail(semicolon.p, "Expected semicolon")
       ELSE tree(semicolon.p, "BreakStatement",
                 IF identifier.r # NoMatch THEN <<identifier.r>> ELSE <<>>)

parseEmptyStatement(p) ==
    LET semicolon == consume(push(p), "SemicolonPunctuator")
    IN IF semicolon.r = NoMatch THEN fail(semicolon.p, "Expected semicolon")
       ELSE tree(semicolon.p, "EmptyStatement", <<>>)

parseExpressionStatement(p) ==
    LET expressions == Call("parseExpressionSequence", push(p))
        semicolon == consume(expressions.p, "SemicolonPunctuator")
    IN IF expressions.r = NoMatch THEN fail(expressions.p, "Expected expression sequence")
       ELSE IF semicolon.r = NoMatch THEN fail(semicolon.p, "Expected semicolon")
       ELSE tree(semicolon.p, "ExpressionStatement", <<expressions.r>>)

parseFieldStatement(p) ==
    LET keyword == consumeFirst(push(p), <<"ValKeyword", "VarKeyword">>)
        identifier == consume(keyword.p, "Identifier")
        colon == consume(identifier.p, "ColonPunctuator")
        type == Call("parseUnionType", colon.p)
        q == IF colon.r = NoMatch THEN colon.p ELSE type.p
        assign == consume(q, "AssignOperator")
        expression == Call("parseAssignmentExpression", assign.p)
        q2 == IF assign.r = NoMatch THEN assign.p ELSE expression.p
        semicolon == consume(q2, "SemicolonPunctuator")
        result == <<keyword.r, identifier.r>>
                  \o (IF colon.r # NoMatch THEN <<type.r>> ELSE <<>>)
                  \o (IF assign.r # NoMatch THEN <<expression.r>> ELSE <<>>)
    IN IF keyword.r = NoMatch THEN fail(keyword.p, "Expected field statement")
       ELSE IF identifier.r = NoMatch THEN fail(identifier.p, "Expected field name ")
       ELSE IF colon.r # NoMatch /\ type.r = NoMatch THEN fail(type.p, "Expected field type")
       ELSE IF assign.r # NoMatch /\ expression.r = NoMatch
            THEN fail(expression.p, "Expected expression")
       ELSE IF semicolon.r = NoMatch THEN fail(semicolon.p, "Expected semicolon")
       ELSE tree(semicolon.p, "FieldStatement", result)

RECURSIVE parseUnionType_loop(_, _)
parseUnionType_loop(p, result) ==
    LET operator == consume(push(p), "OrOperator")
        rhs == Call("parseIntersectionType", operator.p)
    IN IF operator.r = NoMatch THEN Loop(pop(operator.p, FALSE), result, FALSE)
       ELSE IF rhs.r = NoMatch THEN Loop(pop(rhs.p, FALSE), result, FALSE)
       ELSE parseUnionType_loop(pop(rhs.p, TRUE), Append(result, rhs.r))

parseUnionType(p) ==
    LET lhs == Call("parseIntersectionType", push(p))
        loop == parseUnionType_loop(lhs.p, <<lhs.r>>)
    IN IF lhs.r = NoMatch THEN fail(lhs.p, "Expected union type")
       ELSE tree(loop.p, "UnionType", loop.result)

RECURSIVE parseIntersectionType_loop(_, _)
parseIntersectionType_loop(p, result) ==
    LET operator == consume(push(p), "AndOperator")
        rhs == Call("parseUnaryType", operator.p)
    IN IF operator.r = NoMatch THEN Loop(pop(operator.p, FALSE), result, FALSE)
       ELSE IF rhs.r = NoMatch THEN Loop(pop(rhs.p, FALSE), result, FALSE)
       ELSE parseIntersectionType_loop(pop(rhs.p, TRUE), Append(result, rhs.r))

parseIntersectionType(p) ==
    LET lhs == Call("parseUnaryType", push(p))
        loop == parseIntersectionType_loop(lhs.p, <<lhs.r>>)
    IN IF lhs.r = NoMatch THEN fail(lhs.p, "Expected intersection type")
       ELSE tree(loop.p, "IntersectionType", loop.result)

RECURSIVE parseUnaryType_loop(_, _)
parseUnaryType_loop(p, result) ==
    LET generic == Call("parseGenericType", p)
        array == Call("parseArrayType", generic.p)
        match == IF generic.r # NoMatch THEN generic ELSE array
        operator == consumeFirst(match.p, <<"TimesOperator", "OptionalOperator">>)
    IN IF match.r # NoMatch THEN parseUnaryType_loop(match.p, Append(result, match.r))
       ELSE IF operator.r = NoMatch THEN Loop(operator.p, result, FALSE)
       ELSE parseUnaryType_loop(operator.p, Append(result, operator.r))

parseUnaryType(p) ==
    LET base == consumeFirst(push(p), <<"Identifier", "IntegerType", "UnsignedIntegerType",
                                       "FloatType", "BooleanType", "StringType", "VoidType">>)
        loop == parseUnaryType_loop(base.p, <<base.r>>)
    IN IF base.r = NoMatch THEN fail(base.p, "Expected type or identifier")
       ELSE tree(loop.p, "UnaryType", loop.result)

parseArrayType(p) ==
    LET open == consume(push(p), "OpenBracket")
        close == consume(open.p, "CloseBracket")
    IN IF open.r = NoMatch THEN fail(open.p, "Expected array type modifier")
       ELSE IF close.r = NoMatch THEN fail(close.p, "Unterminated array type modifier")
       ELSE tree(close.p, "ArrayType", <<>>)

RECURSIVE parseGenericType_loop(_, _)
parseGenericType_loop(p, result) ==
    LET comma == consume(push(p), "CommaPunctuator")
        rhs == Call("parseUnionType", comma.p)
    IN IF comma.r = NoMatch THEN Loop(pop(comma.p, FALSE), result, FALSE)
       ELSE IF rhs.r = NoMatch THEN Loop(pop(rhs.p, FALSE), result, FALSE)
       ELSE parseGenericType_loop(pop(rhs.p, TRUE), Append(result, rhs.r))

parseGenericType(p) ==
    LET open == consume(push(p), "LessThanOperator")
        lhs == Call("parseUnionType", open.p)
        loop == parseGenericType_loop(lhs.p, <<lhs.r>>)
        close == consume(loop.p, "GreaterThanOperator")
    IN IF open.r = NoMatch THEN fail(open.p, "Expected generic type arguments")
       ELSE IF lhs.r = NoMatch THEN fail(lhs.p, "Expected generic type argument")
       ELSE IF close.r = NoMatch THEN fail(close.p, "Unterminated generic type arguments")
       ELSE tree(close.p, "GenericType", loop.result)

RECURSIVE parseExpressionSequence_loop(_, _)
parseExpressionSequence_loop(p, result) ==
    LET operator == consume(push(p), "CommaPunctuator")
        rhs == Call("parseAssignmentExpression", operator.p)
    IN IF operator.r = NoMatch THEN Loop(pop(operator.p, FALSE), result, FALSE)
       ELSE IF rhs.r = NoMatch THEN Loop(pop(rhs.p, FALSE), result, FALSE)
       ELSE parseExpressionSequence_loop(pop(rhs.p, TRUE), Append(result, rhs.r))

parseExpressionSequence(p) ==
    LET lhs == Call("parseAssignmentExpression", push(p))
        loop == parseExpressionSequence_loop(lhs.p, <<lhs.r>>)
    IN IF lhs.r = NoMatch THEN fail(lhs.p, "Expected expression sequence")
       ELSE tree(loop.p, "ExpressionSequence", loop.result)

AssignmentOperators ==
    <<"PlusAssignOperator", "MinusAssignOperator", "TimesAssignOperator",
      "DivideAssignOperator", "ModuloAssignOperator", "AndAssignOperator",
      "OrAssignOperator", "XorAssignOperator", "CoalesceAssignOperator",
      "LeftShiftAssignOperator", "RightShiftAssignOperator",
      "UnsignedRightShiftAssignOperator", "AssignOperator">>

\* parseAssignmentExpression whose right-hand side is an AssignmentExpression
parseAssignmentExpression_chain(p) ==
    LET lhs == Call("parseTernaryExpression", push(p))
        operator == consumeFirst(push(lhs.p), AssignmentOperators)
        rhs == Call("parseAssignmentExpression", operator.p)
    IN IF lhs.r = NoMatch THEN fail(lhs.p, "Expected assignment expression")
       ELSE IF operator.r = NoMatch
            THEN tree(pop(operator.p, FALSE), "AssignmentExpression", <<lhs.r>>)
       ELSE IF rhs.r = NoMatch
            THEN tree(pop(rhs.p, FALSE), "AssignmentExpression", <<lhs.r>>)
       ELSE tree(pop(rhs.p, TRUE), "AssignmentExpression", <<lhs.r, operator.r, rhs.r>>)

parseAssignmentExpression(p) ==
    LET lhs == Call("parseTernaryExpression", push(p))
        operator == consumeFirst(push(lhs.p), AssignmentOperators)
        rhs == Call("parseTernaryExpression", operator.p)
    IN IF lhs.r = NoMatch THEN fail(lhs.p, "Expected assignment expression")
       ELSE IF operator.r = NoMatch
            THEN tree(pop(operator.p, FALSE), "AssignmentExpression", <<lhs.r>>)
       ELSE IF rhs.r = NoMatch
            THEN tree(pop(rhs.p, FALSE), "AssignmentExpression", <<lhs.r>>)
       ELSE tree(pop(rhs.p, TRUE), "AssignmentExpression", <<lhs.r, operator.r, rhs.r>>)

parseTernaryExpression(p) ==
    LET condition == Call("parseCoalesceExpression", push(p))
        question == consume(push(condition.p), "OptionalOperator")
        lhs == Call("parseAssignmentExpression", question.p)
        colon == consume(lhs.p, "ColonPunctuator")
        rhs == Call("parseAssignmentExpression", colon.p)
    IN IF condition.r = NoMatch THEN fail(condition.p, "Expected ternary expression")
       ELSE IF question.r = NoMatch
            THEN tree(pop(question.p, FALSE), "TernaryExpression", <<condition.r>>)
       ELSE IF lhs.r = NoMatch
            THEN tree(pop(lhs.p, FALSE), "TernaryExpression", <<condition.r>>)
       ELSE IF colon.r = NoMatch
            THEN tree(pop(colon.p, FALSE), "TernaryExpression", <<condition.r>>)
       ELSE IF rhs.r = NoMatch
            THEN tree(pop(rhs.p, FALSE), "TernaryExpression", <<condition.r>>)
       ELSE tree(pop(rhs.p, TRUE), "TernaryExpression", <<condition.r, lhs.r, rhs.r>>)

RECURSIVE parseCoalesceExpression_loop(_, _)
parseCoalesceExpression_loop(p, result) ==
    LET operator == consume(push(p), "CoalesceOperator")
        rhs == Call("parseLogicalOrExpression", operator.p)
    IN IF operator.r = NoMatch THEN Loop(pop(operator.p, FALSE), result, FALSE)
       ELSE IF rhs.r = NoMatch THEN Loop(pop(rhs.p, FALSE), result, FALSE)
       ELSE parseCoalesceExpression_loop(pop(rhs.p, TRUE), Append(result, rhs.r))

parseCoalesceExpression(p) ==
    LET lhs == Call("parseLogicalOrExpression", push(p))
        loop == parseCoalesceExpression_loop(lhs.p, <<lhs.r>>)
    IN IF lhs.r = NoMatch THEN fail(lhs.p, "Expected coalesce expression")
       ELSE tree(loop.p, "CoalesceExpression", loop.result)

RECURSIVE parseLogicalOrExpression_loop(_, _)
parseLogicalOrExpression_loop(p, result) ==
    LET operator == consume(push(p), "OrKeyword")
        rhs == Call("parseLogicalAndExpression", operator.p)
    IN IF operator.r = NoMatch THEN Loop(pop(operator.p, FALSE), result, FALSE)
       ELSE IF rhs.r = NoMatch THEN Loop(pop(rhs.p, FALSE), result, FALSE)
       ELSE parseLogicalOrExpression_loop(pop(rhs.p, TRUE), Append(result, rhs.r))

parseLogicalOrExpression(p) ==
    LET lhs == Call("parseLogicalAndExpression", push(p))
        loop == parseLogicalOrExpression_loop(lhs.p, <<lhs.r>>)
    IN IF lhs.r = NoMatch THEN fail(lhs.p, "Expected logical or expression")
       ELSE tree(loop.p, "LogicalOrExpression", loop.result)

RECURSIVE parseLogicalAndExpression_loop(_, _)
parseLogicalAndExpression_loop(p, result) ==
    LET operator == consume(push(p), "AndKeyword")
        rhs == Call("parseBitwiseOrExpression", operator.p)
    IN IF operator.r = NoMatch THEN Loop(pop(operator.p, FALSE), result, FALSE)
       ELSE IF rhs.r = NoMatch THEN Loop(pop(rhs.p, FALSE), result, FALSE)
       ELSE parseLogicalAndExpression_loop(pop(rhs.p, TRUE), Append(result, rhs.r))

parseLogicalAndExpression(p) ==
    LET lhs == Call("parseBitwiseOrExpression", push(p))
        loop == parseLogicalAndExpression_loop(lhs.p, <<lhs.r>>)
    IN IF lhs.r = NoMatch THEN fail(lhs.p, "Expected logical and expression")
       ELSE tree(loop.p, "LogicalAndExpression", loop.result)

RECURSIVE parseBitwiseOrExpression_loop(_, _)
parseBitwiseOrExpression_loop(p, result) ==
    LET operator == consume(push(p), "OrOperator")
        rhs == Call("parseBitwiseXorExpression", operator.p)
    IN IF operator.r = NoMatch THEN Loop(pop(operator.p, FALSE), result, FALSE)
       ELSE IF rhs.r = NoMatch THEN Loop(pop(rhs.p, FALSE), result, FALSE)
       ELSE parseBitwiseOrExpression_loop(pop(rhs.p, TRUE), Append(result, rhs.r))

parseBitwiseOrExpression(p) ==
    LET lhs == Call("parseBitwiseXorExpression", push(p))
        loop == parseBitwiseOrExpression_loop(lhs.p, <<lhs.r>>)
    IN IF lhs.r = NoMatch THEN fail(lhs.p, "Expected bitwise or expression")
       ELSE tree(loop.p, "BitwiseOrExpression", loop.result)

RECURSIVE parseBitwiseXorExpression_loop(_, _)
parseBitwiseXorExpression_loop(p, result) ==
    LET operator == consume(push(p), "XorOperator")
        rhs == Call("parseBitwiseAndExpression", operator.p)
    IN IF operator.r = NoMatch THEN Loop(pop(operator.p, FALSE), result, FALSE)
       ELSE IF rhs.r = NoMatch THEN Loop(pop(rhs.p, FALSE), result, FALSE)
       ELSE parseBitwiseXorExpression_loop(pop(rhs.p, TRUE), Append(result, rhs.r))

parseBitwiseXorExpression(p) ==
    LET lhs == Call("parseBitwiseAndExpression", push(p))
        loop == parseBitwiseXorExpression_loop(lhs.p, <<lhs.r>>)
    IN IF lhs.r = NoMatch THEN fail(lhs.p, "Expected bitwise xor expression")
       ELSE tree(loop.p, "BitwiseXorExpression", loop.result)

RECURSIVE parseBitwiseAndExpression_loop(_, _)
parseBitwiseAndExpression_loop(p, result) ==
    LET operator == consume(push(p), "AndOperator")
        rhs == Call("parseEqualityExpression", operator.p)
    IN IF operator.r = NoMatch THEN Loop(pop(operator.p, FALSE), result, FALSE)
       ELSE IF rhs.r = NoMatch THEN Loop(pop(rhs.p, FALSE), result, FALSE)
       ELSE parseBitwiseAndExpression_loop(pop(rhs.p, TRUE), Append(result, rhs.r))

parseBitwiseAndExpression(p) ==
    LET lhs == Call("parseEqualityExpression", push(p))
        loop == parseBitwiseAndExpression_loop(lhs.p, <<lhs.r>>)
    IN IF lhs.r = NoMatch THEN fail(lhs.p, "Expected bitwise and expression")
       ELSE tree(loop.p, "BitwiseAndExpression", loop.result)

RECURSIVE parseEqualityExpression_loop(_, _)
parseEqualityExpression_loop(p, result) ==
    LET operator == consumeFirst(push(p), <<"EqualOperator", "NotEqualOperator">>)
        rhs == Call("parseComparisonExpression", operator.p)
    IN IF operator.r = NoMatch THEN Loop(pop(operator.p, FALSE), result, FALSE)
       ELSE IF rhs.r = NoMatch THEN Loop(pop(rhs.p, FALSE), result, FALSE)
       ELSE parseEqualityExpression_loop(pop(rhs.p, TRUE), result \o <<operator.r, rhs.r>>)

parseEqualityExpression(p) ==
    LET lhs == Call("parseComparisonExpression", push(p))
        loop == parseEqualityExpression_loop(lhs.p, <<lhs.r>>)
    IN IF lhs.r = NoMatch THEN fail(lhs.p, "Expected equality expression")
       ELSE tree(loop.p, "EqualityExpression", loop.result)

RECURSIVE parseComparisonExpression_loop(_, _)
parseComparisonExpression_loop(p, result) ==
    LET operator == consumeFirst(push(p), <<"LessThanEqualOperator", "GreaterThanEqualOperator",
                                           "LessThanOperator", "GreaterThanOperator",
                                           "AsKeyword", "IsKeyword", "InKeyword">>)
        rhs == IF operator.r.type = "AsKeyword" \/ operator.r.type = "IsKeyword"
               THEN Call("parseUnaryType", operator.p)
               ELSE Call("parseShiftExpression", operator.p)
    IN IF operator.r = NoMatch THEN Loop(pop(operator.p, FALSE), result, FALSE)
       ELSE IF rhs.r = NoMatch THEN Loop(pop(rhs.p, FALSE), result, FALSE)
       ELSE parseComparisonExpression_loop(pop(rhs.p, TRUE), result \o <<operator.r, rhs.r>>)

parseComparisonExpression(p) ==
    LET lhs == Call("parseShiftExpression", push(p))
        loop == parseComparisonExpression_loop(lhs.p, <<lhs.r>>)
    IN IF lhs.r = NoMatch THEN fail(lhs.p, "Expected comparison expression")
       ELSE tree(loop.p, "ComparisonExpression", loop.result)

RECURSIVE parseShiftExpression_loop(_, _)
parseShiftExpression_loop(p, result) ==
    LET operator == consumeFirst(push(p), <<"LeftShiftOperator", "RightShiftOperator", "UnsignedRightShiftOperator">>)
        rhs == Call("parseTermExpression", operator.p)
    IN IF operator.r = NoMatch THEN Loop(pop(operator.p, FALSE), result, FALSE)
       ELSE IF rhs.r = NoMatch THEN Loop(pop(rhs.p, FALSE), result, FALSE)
       ELSE parseShiftExpression_loop(pop(rhs.p, TRUE), result \o <<operator.r, rhs.r>>)

parseShiftExpression(p) ==
    LET lhs == Call("parseTermExpression", push(p))
        loop == parseShiftExpression_loop(lhs.p, <<lhs.r>>)
    IN IF lhs.r = NoMatch THEN fail(lhs.p, "Expected shift expression")
       ELSE tree(loop.p, "ShiftExpression", loop.result)

\* The operator is pushed onto result before the right operand is parsed, and it
\* stays there when the operand fails and the loop backs out of the operator.
RECURSIVE parseTermExpression_loop(_, _)
parseTermExpression_loop(p, result) ==
    LET operator == consumeFirst(push(p), <<"PlusOperator", "MinusOperator">>)
        rhs == Call("parseFactorExpression", operator.p)
    IN IF operator.r = NoMatch THEN Loop(pop(operator.p, FALSE), result, FALSE)
       ELSE IF rhs.r = NoMatch
            THEN Loop(pop(rhs.p, FALSE), Append(result, operator.r), FALSE)
       ELSE parseTermExpression_loop(pop(rhs.p, TRUE), result \o <<operator.r, rhs.r>>)

parseTermExpression(p) ==
    LET lhs == Call("parseFactorExpression", push(p))
        loop == parseTermExpression_loop(lhs.p, <<lhs.r>>)
    IN IF lhs.r = NoMatch THEN fail(lhs.p, "Expected term expression")
       ELSE tree(loop.p, "TermExpression", loop.result)

\* a factor loop that takes the additive operators as well
RECURSIVE parseFactorExpression_loop_additive(_, _)
parseFactorExpression_loop_additive(p, result) ==
    LET operator == consumeFirst(push(p), <<"TimesOperator", "DivideOperator", "ModuloOperator",
                                            "PlusOperator", "MinusOperator">>)
        rhs == Call("parseRangeExpression", operator.p)
    IN IF operator.r = NoMatch THEN Loop(pop(operator.p, FALSE), result, FALSE)
       ELSE IF rhs.r = NoMatch THEN Loop(pop(rhs.p, FALSE), result, FALSE)
       ELSE parseFactorExpression_loop_additive(pop(rhs.p, TRUE), result \o <<operator.r, rhs.r>>)

RECURSIVE parseFactorExpression_loop(_, _)
parseFactorExpression_loop(p, result) ==
    LET operator == consumeFirst(push(p), <<"TimesOperator", "DivideOperator", "ModuloOperator">>)
        rhs == Call("parseRangeExpression", operator.p)
    IN IF operator.r = NoMatch THEN Loop(pop(operator.p, FALSE), result, FALSE)
       ELSE IF rhs.r = NoMatch THEN Loop(pop(rhs.p, FALSE), result, FALSE)
       ELSE parseFactorExpression_loop(pop(rhs.p, TRUE), result \o <<operator.r, rhs.r>>)

parseFactorExpression(p) ==
    LET lhs == Call("parseRangeExpression", push(p))
        loop == parseFactorExpression_loop(lhs.p, <<lhs.r>>)
    IN IF lhs.r = NoMatch THEN fail(lhs.p, "Expected factor expression")
       ELSE tree(loop.p, "FactorExpression", loop.result)

\* parseRangeExpression that returns a tree when it has matched nothing
parseRangeExpression_empty(p) ==
    LET lhs == Call("parseUnaryExpression", push(p))
        operator == consumeFirst(lhs.p, <<"InclusiveRangeOperator", "ExclusiveRangeOperator">>)
        rhs == IF operator.r # NoMatch THEN Call("parseUnaryExpression", operator.p)
               ELSE Ret(operator.p, NoMatch)
        result == (IF lhs.r # NoMatch THEN <<lhs.r>> ELSE <<>>)
                  \o (IF rhs.r # NoMatch THEN <<rhs.r>> ELSE <<>>)
    IN tree(rhs.p, "RangeExpression", result)

parseRangeExpression(p) ==
    LET lhs == Call("parseUnaryExpression", push(p))
        operator == consumeFirst(lhs.p, <<"InclusiveRangeOperator", "ExclusiveRangeOperator">>)
        rhs == IF operator.r # NoMatch THEN Call("parseUnaryExpression", operator.p)
               ELSE Ret(operator.p, NoMatch)
        result == (IF lhs.r # NoMatch THEN <<lhs.r>> ELSE <<>>)
                  \o (IF operator.r # NoMatch THEN <<operator.r>> ELSE <<>>)
                  \o (IF rhs.r # NoMatch THEN <<rhs.r>> ELSE <<>>)
    IN IF lhs.r = NoMatch /\ rhs.r = NoMatch THEN fail(rhs.p, "Expected range expression")
       ELSE tree(rhs.p, "RangeExpression", result)

RECURSIVE parseUnaryExpression_loop(_, _)
parseUnaryExpression_loop(p, result) ==
    LET operator == consumeFirst(p, <<"NotKeyword", "NotOperator", "PlusOperator",
                                     "MinusOperator", "TimesOperator", "AndOperator">>)
    IN IF operator.r = NoMatch THEN Loop(operator.p, result, FALSE)
       ELSE parseUnaryExpression_loop(operator.p, Append(result, operator.r))

parseUnaryExpression(p) ==
    LET loop == parseUnaryExpression_loop(push(p), <<>>)
        operand == Call("parseReferenceExpression", loop.p)
    IN IF operand.r = NoMatch THEN fail(operand.p, "Expected expression")
       ELSE tree(operand.p, "UnaryExpression", Append(loop.result, operand.r))

parseReferenceExpression_alternatives(p) ==
    LET a1 == Call("parsePropertyAccess", p)
        a2 == Call("parseOptionalPropertyAccess", a1.p)
        a3 == Call("parseArrayIndex", a2.p)
        a4 == Call("parseMethodCall", a3.p)
    IN IF a1.r # NoMatch THEN a1 ELSE IF a2.r # NoMatch THEN a2
       ELSE IF a3.r # NoMatch THEN a3 ELSE a4

RECURSIVE parseReferenceExpression_loop(_, _)
parseReferenceExpression_loop(p, result) ==
    LET match == parseReferenceExpression_alternatives(p)
    IN IF match.r = NoMatch THEN Loop(match.p, result, FALSE)
       ELSE parseReferenceExpression_loop(match.p, Append(result, match.r))

parseReferenceExpression(p) ==
    LET lhs == Call("parseLiteralValue", push(p))
        loop == parseReferenceExpression_loop(lhs.p, <<lhs.r>>)
    IN IF lhs.r = NoMatch THEN fail(lhs.p, "Expected value")
       ELSE tree(loop.p, "ReferenceExpression", loop.result)

parseLiteralValue(p) ==
    LET array == Call("parseArrayInitializer", push(p))
        atom == consumeFirst(array.p, <<"Identifier", "StringLiteral", "IntLiteral",
                                       "FloatLiteral", "BinaryLiteral", "OctalLiteral",
                                       "HexadecimalLiteral", "BoolLiteral", "NullKeyword",
                                       "ThisKeyword", "SuperKeyword">>)
        cast == Call("parseCast", atom.p)
        open == consume(cast.p, "OpenParenthesis")
        value == Call("parseExpressionSequence", open.p)
        close == consume(value.p, "CloseParenthesis")
    IN IF array.r # NoMatch THEN tree(array.p, "LiteralValue", <<array.r>>)
       ELSE IF atom.r # NoMatch THEN tree(atom.p, "LiteralValue", <<atom.r>>)
       ELSE IF cast.r # NoMatch THEN tree(cast.p, "LiteralValue", <<cast.r>>)
       ELSE IF open.r = NoMatch THEN fail(open.p, "Expected value")
       ELSE IF value.r = NoMatch THEN fail(value.p, "Expected expression sequence")
       ELSE IF close.r = NoMatch THEN fail(close.p, "Unterminated expression sequence")
       ELSE tree(close.p, "LiteralValue", <<value.r>>)

\* parseCast that accepts `( UnaryType )` with no value after it
parseCast_typeOnly(p) ==
    LET open == consume(push(p), "OpenParenthesis")
        type == Call("parseUnaryType", open.p)
        close == consume(type.p, "CloseParenthesis")
        value == Call("parseLiteralValue", close.p)
    IN IF open.r = NoMatch THEN fail(open.p, "Expected cast")
       ELSE IF type.r = NoMatch THEN fail(type.p, "Expected cast type")
       ELSE IF close.r = NoMatch THEN fail(close.p, "Unterminated cast")
       ELSE IF value.r = NoMatch THEN tree(value.p, "TypeCast", <<type.r>>)
       ELSE tree(value.p, "TypeCast", <<type.r, value.r>>)

parseCast(p) ==
    LET open == consume(push(p), "OpenParenthesis")
        type == Call("parseUnaryType", open.p)
        close == consume(type.p, "CloseParenthesis")
        value == Call("parseLiteralValue", close.p)
    IN IF open.r = NoMatch THEN fail(open.p, "Expected cast")
       ELSE IF type.r = NoMatch THEN fail(type.p, "Expected cast type")
       ELSE IF close.r = NoMatch THEN fail(close.p, "Unterminated cast")
       ELSE IF value.r = NoMatch THEN fail(value.p, "Expected cast value")
       ELSE tree(value.p, "TypeCast", <<type.r, value.r>>)

parsePropertyAccess(p) ==
    LET operator == consume(push(p), "AccessOperator")
        identifier == consume(operator.p, "Identifier")
    IN IF operator.r = NoMatch THEN fail(operator.p, "Expected member access")
       ELSE IF identifier.r = NoMatch THEN fail(identifier.p, "Expected identifier")
       ELSE tree(identifier.p, "PropertyAccess", <<identifier.r>>)

parseOptionalPropertyAccess(p) ==
    LET operator == consume(push(p), "OptionalAccessOperator")
        identifier == consume(operator.p, "Identifier")
        index == Call("parseArrayIndex", identifier.p)
        invoke == Call("parseMethodCall", index.p)
        match == IF identifier.r # NoMatch THEN identifier
                 ELSE IF index.r # NoMatch THEN index ELSE invoke
    IN IF operator.r = NoMatch THEN fail(operator.p, "Expected optional reference")
       ELSE IF match.r = NoMatch THEN fail(match.p, "Expected reference")
       ELSE tree(match.p, "OptionalPropertyAccess", <<match.r>>)

parseArrayIndex(p) ==
    LET open == consume(push(p), "OpenBracket")
        index == Call("parseExpressionSequence", open.p)
        close == consume(index.p, "CloseBracket")
    IN IF open.r = NoMatch THEN fail(open.p, "Expected array index")
       ELSE IF index.r = NoMatch THEN fail(index.p, "Expected expression sequence")
       ELSE IF close.r = NoMatch THEN fail(close.p, "Unterminated array index")
       ELSE tree(close.p, "ArrayIndex", <<index.r>>)

RECURSIVE parseMethodCall_loop(_, _)
parseMethodCall_loop(p, result) ==
    LET comma == IF Len(result) > 0 THEN consume(p, "CommaPunctuator") ELSE Ret(p, NoMatch)
        argument == Call("parseMethodCallArgument", comma.p)
    IN IF Len(result) > 0 /\ comma.r = NoMatch THEN Loop(comma.p, result, FALSE)
       ELSE IF argument.r = NoMatch
            THEN IF Len(result) = 0 THEN Loop(argument.p, result, FALSE)
                 ELSE Loop(fail(argument.p, "Expected call argument").p, result, TRUE)
       ELSE parseMethodCall_loop(argument.p, Append(result, argument.r))

parseMethodCall(p) ==
    LET open == consume(push(p), "OpenParenthesis")
        loop == parseMethodCall_loop(open.p, <<>>)
        close == consume(loop.p, "CloseParenthesis")
    IN IF open.r = NoMatch THEN fail(open.p, "Expected call")
       ELSE IF loop.returned THEN Ret(loop.p, NoMatch)
       ELSE IF close.r = NoMatch THEN fail(close.p, "Unterminated call")
       ELSE tree(close.p, "MethodCall", loop.result)

RECURSIVE parseArrayInitializer_loop(_, _)
parseArrayInitializer_loop(p, result) ==
    LET comma == IF Len(result) > 0 THEN consume(p, "CommaPunctuator") ELSE Ret(p, NoMatch)
        value == Call("parseArrayValue", comma.p)
    IN IF Len(result) > 0 /\ comma.r = NoMatch THEN Loop(comma.p, result, FALSE)
       ELSE IF value.r = NoMatch
            THEN IF Len(result) = 0 THEN Loop(value.p, result, FALSE)
                 ELSE Loop(fail(value.p, "Expected array value").p, result, TRUE)
       ELSE parseArrayInitializer_loop(value.p, Append(result, value.r))

parseArrayInitializer(p) ==
    LET open == consume(push(p), "OpenBracket")
        loop == parseArrayInitializer_loop(open.p, <<>>)
        close == consume(loop.p, "CloseBracket")
    IN IF open.r = NoMatch THEN fail(open.p, "Expected array initializer")
       ELSE IF loop.returned THEN Ret(loop.p, NoMatch)
       ELSE IF close.r = NoMatch THEN fail(close.p, "Unterminated array initializer")
       ELSE tree(close.p, "ArrayInitializer", loop.result)

parseArrayValue(p) ==
    LET argument == Call("parseAssignmentExpression", push(p))
    IN IF argument.r = NoMatch THEN fail(argument.p, "Expected expression")
       ELSE tree(argument.p, "ArrayValue", <<argument.r>>)

parseMethodCallArgument(p) ==
    LET argument == Call("parseAssignmentExpression", push(p))
    IN IF argument.r = NoMatch THEN fail(argument.p, "Expected expression")
       ELSE tree(argument.p, "MethodCallArgument", <<argument.r>>)

\* the method named `name`
Production(name, p) ==
    CASE name = "parseBody" -> parseBody(p)
      [] name = "parseStatement" -> parseStatement(p)
      [] name = "parseLabeledStatement" -> parseLabeledStatement(p)
      [] name = "parseBlockStatement" -> parseBlockStatement(p)
      [] name = "parseIfStatement" -> parseIfStatement(p)
      [] name = "parseWhileStatement" -> parseWhileStatement(p)
      [] name = "parseMatchStatement" -> parseMatchStatement(p)
      [] name = "parseMatchOption" -> parseMatchOption(p)
      [] name = "parseDefStatement" -> parseDefStatement(p)
      [] name = "parseParameters" -> parseParameters(p)
      [] name = "parseParameter" -> parseParameter(p)
      [] name = "parseDoStatement" -> parseDoStatement(p)
      [] name = "parseForStatement" -> parseForStatement(p)
      [] name = "parseReturnStatement" -> parseReturnStatement(p)
      [] name = "parseContinueStatement" -> parseContinueStatement(p)
      [] name = "parseBreakStatement" -> parseBreakStatement(p)
      [] name = "parseEmptyStatement" -> parseEmptyStatement(p)
      [] name = "parseExpressionStatement" -> parseExpressionStatement(p)
      [] name = "parseFieldStatement" -> parseFieldStatement(p)
      [] name = "parseUnionType" -> parseUnionType(p)
      [] name = "parseIntersectionType" -> parseIntersectionType(p)
      [] name = "parseUnaryType" -> parseUnaryType(p)
      [] name = "parseArrayType" -> parseArrayType(p)
      [] name = "parseGenericType" -> parseGenericType(p)
      [] name = "parseExpressionSequence" -> parseExpressionSequence(p)
      [] name = "parseAssignmentExpression" -> parseAssignmentExpression(p)
      [] name = "parseTernaryExpression" -> parseTernaryExpression(p)
      [] name = "parseCoalesceExpression" -> parseCoalesceExpression(p)
      [] name = "parseLogicalOrExpression" -> parseLogicalOrExpression(p)
      [] name = "parseLogicalAndExpression" -> parseLogicalAndExpression(p)
      [] name = "parseBitwiseOrExpression" -> parseBitwiseOrExpression(p)
      [] name = "parseBitwiseXorExpression" -> parseBitwiseXorExpression(p)
      [] name = "parseBitwiseAndExpression" -> parseBitwiseAndExpression(p)
      [] name = "parseEqualityExpression" -> parseEqualityExpression(p)
      [] name = "parseComparisonExpression" -> parseComparisonExpression(p)
      [] name = "parseShiftExpression" -> parseShiftExpression(p)
      [] name = "parseTermExpression" -> parseTermExpression(p)
      [] name = "parseFactorExpression" -> parseFactorExpression(p)
      [] name = "parseRangeExpression" -> parseRangeExpression(p)
      [] name = "parseUnaryExpression" -> parseUnaryExpression(p)
      [] name = "parseReferenceExpression" -> parseReferenceExpression(p)
      [] name = "parseLiteralValue" -> parseLiteralValue(p)
      [] name = "parseCast" -> parseCast(p)
      [] name = "parsePropertyAccess" -> parsePropertyAccess(p)
      [] name = "parseOptionalPropertyAccess" -> parseOptionalPropertyAccess(p)
      [] name = "parseArrayIndex" -> parseArrayIndex(p)
      [] name = "parseMethodCall" -> parseMethodCall(p)
      [] name = "parseArrayInitializer" -> parseArrayInitializer(p)
      [] name = "parseArrayValue" -> parseArrayValue(p)
      [] name = "parseMethodCallArgument" -> parseMethodCallArgument(p)

\* The engine's call stack: one frame per active method, with the parser as it
\* was on entry and the outcomes of the calls the method has made so far.
Frame(name, p) == [name |-> name, p |-> p, answers |-> <<>>]

Returning(frames, ret) ==
    IF Len(frames) = 1 THEN [frames |-> <<>>, result |-> ret]
    ELSE [frames |-> Append(SubSeq(frames, 1, Len(frames) - 2),
                            [frames[Len(frames) - 1] EXCEPT !.answers = Append(@, ret)]),
          result |-> Null]

Resume(frames, out) ==
    IF out.p.pending # Null
    THEN [frames |-> Append(frames, Frame(out.p.pending.name, out.p.pending.p)),
          result |-> Null]
    ELSE Returning(frames, Ret(Object(out.p), out.r))

\* run the body of the innermost active method up to its next call or its return
Step(m) ==
    Resume(m.frames, Production(m.frames[Len(m.frames)].name,
                                Activation(m.frames[Len(m.frames)].p,
                                           m.frames[Len(m.frames)].answers)))

\* at most 2^k steps
RECURSIVE Run(_, _)
Run(m, k) ==
    IF m.frames = <<>> THEN m
    ELSE IF k = 0 THEN Step(m)
    ELSE Run(Run(m, k - 1), k - 1)

MaxDoublings == 12

\* this.parseX() called from outside the productions
Invoke(name, p) == Run([frames |-> <<Frame(name, Object(p))>>, result |-> Null], MaxDoublings).result

\* ast() without the test for leftover tokens
ast_result_unchecked(result) ==
    Ret(result.p, IF result.r = NoMatch THEN result.p.error ELSE result.r)

\* ast() that reports the last leftover token
ast_result_last(result) ==
    IF Len(result.p.stack[1]) > 0
    THEN Ret(throw(result.p, ParserError("Unexpected token",
                                         result.p.stack[1][Len(result.p.stack[1])].text,
                                         result.p.stack[1][Len(result.p.stack[1])].start,
                                         result.p.stack[1][Len(result.p.stack[1])].stop), FALSE),
             throw(result.p, ParserError("Unexpected token",
                                         result.p.stack[1][Len(result.p.stack[1])].text,
                                         result.p.stack[1][Len(result.p.stack[1])].start,
                                         result.p.stack[1][Len(result.p.stack[1])].stop), FALSE).error)
    ELSE Ret(result.p, IF result.r = NoMatch THEN result.p.error ELSE result.r)

\* ast(): what follows `const result = this.parseBody()`
ast_result(result) ==
    IF Len(result.p.stack[1]) > 0
    THEN Ret(throw(result.p, ParserError("Unexpected token", result.p.stack[1][1].text,
                                         result.p.stack[1][1].start,
                                         result.p.stack[1][1].stop), FALSE),
             throw(result.p, ParserError("Unexpected token", result.p.stack[1][1].text,
                                         result.p.stack[1][1].start,
                                         result.p.stack[1][1].stop), FALSE).error)
    ELSE Ret(result.p, IF result.r = NoMatch THEN result.p.error ELSE result.r)

ast(p) == ast_result(Invoke("parseBody", p))
(***************************************************************************)
(* The parser as a state machine: the caller constructs a Parser over a    *)
(* token array and calls its public methods.                               *)
(***************************************************************************)
Productions ==
    {"parseBody", "parseStatement", "parseLabeledStatement", "parseBlockStatement",
     "parseIfStatement", "parseWhileStatement", "parseMatchStatement", "parseMatchOption",
     "parseDefStatement", "parseParameters", "parseParameter", "parseDoStatement",
     "parseForStatement", "parseReturnStatement", "parseContinueStatement",
     "parseBreakStatement", "parseEmptyStatement", "parseExpressionStatement",
     "parseFieldStatement", "parseUnionType", "parseIntersectionType", "parseUnaryType",
     "parseArrayType", "parseGenericType", "parseExpressionSequence",
     "parseAssignmentExpression", "parseTernaryExpression", "parseCoalesceExpression",
     "parseLogicalOrExpression", "parseLogicalAndExpression", "parseBitwiseOrExpression",
     "parseBitwiseXorExpression", "parseBitwiseAndExpression", "parseEqualityExpression",
     "parseComparisonExpression", "parseShiftExpression", "parseTermExpression",
     "parseFactorExpression", "parseRangeExpression", "parseUnaryExpression",
     "parseReferenceExpression", "parseLiteralValue", "parseCast", "parsePropertyAccess",
     "parseOptionalPropertyAccess", "parseArrayIndex", "parseMethodCall",
     "parseArrayInitializer", "parseArrayValue", "parseMethodCallArgument"}

(***************************************************************************)
(* The program as a state machine: the test harness builds a Lexer over a  *)
(* source text and runs tokens(), one consume() per step; when tokens()    *)
(* has returned an array it constructs a Parser over it and calls it.      *)
(***************************************************************************)
RECURSIVE Concat(_)
Concat(pieces) == IF Len(pieces) = 0 THEN "" ELSE Head(pieces) \o Concat(Tail(pieces))

\* the texts made of at most n of the given pieces
Texts(pieces, n) == {Units(Concat(ps)) : ps \in UNION {[1..k -> pieces] : k \in 0..n}}

MaxPieces == 3

MaxLexPieces == 3

MaxStringPieces == 4

MaxCalls == 1

\* pieces of programs
Fragments == {"a", ";", "+a", ")", " "}

\* whole programs
Programs ==
    {"a = b;", "a = b = c;", "if (a) if (b) x; else y;", "if (a) x; else y;",
     "(int)x", "(int)x;", "(x);", "..end", "start..", "..", "start..end", "1 + 2 * 3",
     "1 * 2 + 3;", "val x = ;", "val x = a;", "match (n) { }", "a +", "a *",
     "match (n) { 1 => a; 2 => b; c; }"}

\* pieces of token sequences
LexFragments ==
    {"a", "val", "_", "valueOf", "1", " ", "\n", "//", "/*", "*/", ">", ">>", "<", "=", ".",
     "?", "#"}

\* pieces of string literals, which follow an opening quote
StringFragments ==
    {"'", "\"", "\\", "\\x", "\\u", "\\u{", "}", "1F", "1f", "G", "1F600", "110000", "n"}

\* the texts made of an opening quote and at most n of the given pieces
Quoted(pieces, n) == {<<39>> \o t : t \in Texts(pieces, n)}

Array(items) == [type |-> "Array", items |-> items]

NoCall == [op |-> "none", entry |-> <<>>, result |-> Null]

Start(sources) ==
    /\ source \in sources
    /\ text = source
    /\ lexed = <<>>
    /\ skipped = <<>>
    /\ lexResult = Null
    /\ stack = <<>>
    /\ error = Null
    /\ thrown = <<>>
    /\ call = NoCall
    /\ ncalls = 0

Init == Start(Texts(Fragments, MaxPieces) \cup {Units(program) : program \in Programs})

LexInit == Start(Texts(LexFragments, MaxLexPieces))

StringInit == Start(Quoted(StringFragments, MaxStringPieces))

TheLexer == [source |-> source, text |-> text]

\* a loop body that drops a LexerError and goes on
Consumed_skipping(token) ==
    /\ text' = token.p.text
    /\ lexResult' = lexResult
    /\ lexed' = IF token.r.type = "LexerError" \/ token.r = NoMatch
                THEN lexed ELSE Append(lexed, token.r)
    /\ skipped' = IF token.r = NoMatch
                  THEN Append(skipped, [start |-> Lexer_index(TheLexer),
                                        stop |-> Lexer_index(token.p)])
                  ELSE skipped
    /\ UNCHANGED <<source, parserVars>>

\* if (token instanceof LexerError) return token; if (token) tokens.push(token)
Consumed(token) ==
    /\ text' = token.p.text
    /\ lexResult' = IF token.r.type = "LexerError" THEN token.r ELSE lexResult
    /\ lexed' = IF token.r.type = "LexerError" \/ token.r = NoMatch
                THEN lexed ELSE Append(lexed, token.r)
    /\ skipped' = IF token.r = NoMatch
                  THEN Append(skipped, [start |-> Lexer_index(TheLexer),
                                        stop |-> Lexer_index(token.p)])
                  ELSE skipped
    /\ UNCHANGED <<source, parserVars>>

\* one iteration of the loop of tokens()
Consume ==
    /\ lexResult = Null
    /\ Lexer_index(TheLexer) < Len(source)
    /\ Consumed(Lexer_consume(TheLexer))

\* the loop of tokens() ends: return tokens
TokensReturn ==
    /\ lexResult = Null
    /\ Lexer_index(TheLexer) >= Len(source)
    /\ lexResult' = Array(lexed)
    /\ UNCHANGED <<source, text, lexed, skipped, parserVars>>

\* new Parser(tokens, text)
New ==
    /\ lexResult.type = "Array"
    /\ stack = <<>>
    /\ stack' = NewParser(lexResult.items).stack
    /\ error' = NewParser(lexResult.items).error
    /\ thrown' = NewParser(lexResult.items).thrown
    /\ lexResult' = Array(Argument(lexResult.items, NewParser(lexResult.items)))
    /\ UNCHANGED <<call, ncalls, source, text, lexed, skipped>>

TheParser == [stack |-> stack, error |-> error, thrown |-> thrown]

Returned(name, ret) ==
    /\ stack' = ret.p.stack
    /\ error' = ret.p.error
    /\ thrown' = ret.p.thrown
    /\ call' = [op |-> name, entry |-> stack, result |-> ret.r]
    /\ ncalls' = ncalls + 1
    /\ lexResult' = Array(Argument(lexResult.items, ret.p))
    /\ UNCHANGED <<source, text, lexed, skipped>>

Ast ==
    /\ stack # <<>>
    /\ ncalls < MaxCalls
    /\ Returned("ast", ast(TheParser))

Parse(name) ==
    /\ stack # <<>>
    /\ ncalls < MaxCalls
    /\ Returned(name, Invoke(name, TheParser))

LexNext == Consume \/ TokensReturn

Next == Consume \/ TokensReturn \/ New \/ Ast \/ \E name \in Productions : Parse(name)

Spec == Init /\ [][Next]_vars

LexSpec == LexInit /\ [][LexNext]_vars

StringSpec == StringInit /\ [][LexNext]_vars

\* the loop of tokens() goes on as long as it can
MaxFairPieces == 2

FairLexInit == Start(Texts(LexFragments, MaxFairPieces))

FairLexSpec == FairLexInit /\ [][LexNext]_vars /\ WF_vars(LexNext)

MaxReusePieces == 2

MaxReuseCalls == 2

\* pieces of the programs given to a parser that is called more than once
ReuseFragments == {"a", ";", "+a"}

ReuseInit == Start(Texts(ReuseFragments, MaxReusePieces))

\* a production is called on a parser on which productions were called before
Reuse(name) ==
    /\ stack # <<>>
    /\ ncalls < MaxReuseCalls
    /\ Returned(name, Invoke(name, TheParser))

ReuseNext == Consume \/ TokensReturn \/ New \/ \E name \in Productions : Reuse(name)

ReuseSpec == ReuseInit /\ [][ReuseNext]_vars


(***************************************************************************)
(* Properties.                                                             *)
(***************************************************************************)
\* the view that was current when the last call was entered, and now
EntryView == call.entry[Len(call.entry)]

CurrentView == stack[Len(stack)]

IsSuffix(s, t) == Len(s) <= Len(t) /\ s = SubSeq(t, Len(t) - Len(s) + 1, Len(t))

IsBody(x) == IsTree(x) /\ x.type = "Body"

\* C1: ast() returns a Body tree exactly when parseBody() left the root view
\* empty; otherwise it returns a ParserError (never null, never a tree); over
\* no tokens at all it returns a Body without children.
C1_AllOrNothing ==
    call.op = "ast" =>
        /\ IsBody(call.result) <=> stack[1] = <<>>
        /\ stack[1] # <<>> => call.result.type = "ParserError"
        /\ call.entry = <<<<>>>> => IsBody(call.result) /\ call.result.items = <<>>

\* ast() has returned a Body with two statements
C1_Witness ==
    call.op = "ast" /\ IsBody(call.result) /\ Len(call.result.items) = 2 /\ stack[1] = <<>>

\* C2: after tokens() has returned an array, every token has
\* 0 <= start < stop <= source.length and each token stops no later than the
\* next one starts.
C2_TokenSpans ==
    lexResult.type = "Array" =>
        /\ \A i \in 1..Len(lexResult.items) :
              /\ 0 <= lexResult.items[i].start
              /\ lexResult.items[i].start < lexResult.items[i].stop
              /\ lexResult.items[i].stop <= Len(source)
        /\ \A i \in 1..(Len(lexResult.items) - 1) :
              lexResult.items[i].stop <= lexResult.items[i + 1].start

\* tokens() has returned three tokens, two of them apart
C2_Witness ==
    /\ lexResult.type = "Array"
    /\ Len(lexResult.items) = 3
    /\ lexResult.items[1].stop < lexResult.items[2].start

\* C3: a production that returns undefined leaves the stack as deep as it
\* found it and the view that was current on entry with the same tokens.
C3_FailureRestores ==
    (call.op \in Productions /\ call.result = NoMatch) =>
        /\ Len(stack) = Len(call.entry)
        /\ CurrentView = EntryView

\* a production has failed after consuming a token of its speculative view:
\* the error it stored lies beyond the first token of the entry view
C3_Witness ==
    /\ call.op \in Productions \ {"parseBody"}
    /\ call.result = NoMatch
    /\ EntryView # <<>>
    /\ error.start > EntryView[1].start
    /\ CurrentView = EntryView

\* C4: a production that returns a tree leaves the stack as deep as it found
\* it, and the view that was current on entry holds a suffix of what it held:
\* the tokens the production did not consume, the tree stopping where the
\* first of them starts.
C4_SuccessCommits ==
    (call.op \in Productions /\ IsTree(call.result)) =>
        /\ Len(stack) = Len(call.entry)
        /\ IsSuffix(CurrentView, EntryView)
        /\ CurrentView # <<>> => call.result.stop = CurrentView[1].start

\* a production has returned a tree having consumed some but not all tokens
C4_Witness ==
    /\ call.op \in Productions
    /\ IsTree(call.result)
    /\ CurrentView # <<>>
    /\ Len(CurrentView) < Len(EntryView)

\* the index in errs of the error the slot must hold: the last one among
\* those with the greatest start
Furthest(errs) ==
    CHOOSE i \in 1..Len(errs) :
        /\ \A j \in 1..Len(errs) : errs[j].start <= errs[i].start
        /\ \A j \in (i + 1)..Len(errs) : errs[j].start < errs[i].start

\* C5: the error slot is null while nothing was thrown; afterwards it holds
\* the thrown error with the greatest start, the last one of them when
\* several share it.  So its start never decreases.
C5_FurthestError ==
    IF thrown = <<>> THEN error = Null ELSE error = thrown[Furthest(thrown)]

\* two thrown errors share the greatest start and differ, and one with a
\* smaller start was thrown after them
C5_Witness ==
    /\ Len(thrown) >= 3
    /\ \E i \in 1..Len(thrown) :
          /\ i < Furthest(thrown)
          /\ thrown[i].start = error.start
          /\ thrown[i] # error
    /\ thrown[Len(thrown)].start < error.start

\* the "Unexpected token" error for the first token left in the root view
Unexpected == ParserError("Unexpected token", stack[1][1].text, stack[1][1].start, stack[1][1].stop)

\* C6 as stated: whenever the root view still holds tokens after ast(), the
\* error ast() returned is "Unexpected token" with the text and the span of
\* the first leftover token.
C6_ReturnsUnexpectedToken ==
    (call.op = "ast" /\ stack[1] # <<>>) => call.result = Unexpected

\* C6 amended: whenever the root view still holds tokens after ast(), the last
\* error handed to throw() is "Unexpected token" for the first leftover token;
\* ast() returns it when no error thrown before starts beyond that token, and
\* otherwise returns the stored error, which starts beyond that token.
C6_EmitsUnexpectedToken ==
    (call.op = "ast" /\ stack[1] # <<>>) =>
        /\ thrown[Len(thrown)] = Unexpected
        /\ call.result = error
        /\ IF \A i \in 1..(Len(thrown) - 1) : thrown[i].start <= stack[1][1].start
           THEN call.result = Unexpected
           ELSE call.result.start > stack[1][1].start

\* ast() has returned "Unexpected token" for the first of two leftover tokens,
\* after the productions had thrown errors of their own
C6_Witness ==
    /\ call.op = "ast"
    /\ Len(stack[1]) = 2
    /\ call.result = Unexpected
    /\ Len(thrown) > 1

\* the trees that are children of the trees of a set
Children(trees) ==
    UNION {{t.items[i] : i \in {j \in 1..Len(t.items) : IsTree(t.items[j])}} : t \in trees}

\* the trees reached from a set of trees in at most 2^k steps down
RECURSIVE Close(_, _)
Close(trees, k) ==
    IF Children(trees) \subseteq trees THEN trees
    ELSE IF k = 0 THEN trees \cup Children(trees)
    ELSE Close(Close(trees, k - 1), k - 1)

MaxTreeDoublings == 6

\* every tree node of a tree
Nodes(root) == Close({root}, MaxTreeDoublings)

\* C7: in a CST returned by a successful ast(), every tree node has
\* start <= stop, starts no later than its first child, stops no earlier than
\* its last child, and each child starts no earlier than the previous stops.
C7_WellFormedTree ==
    (call.op = "ast" /\ IsBody(call.result)) =>
        \A t \in Nodes(call.result) :
            /\ t.start <= t.stop
            /\ t.items # <<>> =>
                  /\ t.start <= t.items[1].start
                  /\ t.items[Len(t.items)].stop <= t.stop
            /\ \A i \in 2..Len(t.items) : t.items[i].start >= t.items[i - 1].stop

\* ast() has returned a CST with a node of three children
C7_Witness ==
    /\ call.op = "ast"
    /\ IsBody(call.result)
    /\ \E t \in Nodes(call.result) : Len(t.items) = 3

\* source.slice(from, to)
Slice(from, to) == SubSeq(source, from + 1, IF to < Len(source) THEN to ELSE Len(source))

IsWhitespaceSpan(span) ==
    span.stop = span.start + 1 /\ source[span.stop] \in {13, 10, 12, 11, 9, 32}

IsLineComment(span) ==
    /\ span.stop >= span.start + 2
    /\ Slice(span.start, span.start + 2) = <<47, 47>>
    /\ \A i \in (span.start + 3)..span.stop : source[i] \notin LineTerminators

IsBlockComment(span) ==
    /\ span.stop >= span.start + 4
    /\ Slice(span.start, span.start + 2) = <<47, 42>>
    /\ Slice(span.stop - 2, span.stop) = <<42, 47>>

\* C8: after tokens() has returned an array, every character of the source
\* lies in the span of a token or in a skipped span; every skipped span is one
\* white space character, a // comment or a /* */ comment; and no token begins
\* with white space or with //, or is a /* */ comment.
C8_TokensCoverContent ==
    lexResult.type = "Array" =>
        /\ \A i \in 0..(Len(source) - 1) :
              \/ \E k \in 1..Len(lexResult.items) :
                    lexResult.items[k].start <= i /\ i < lexResult.items[k].stop
              \/ \E k \in 1..Len(skipped) : skipped[k].start <= i /\ i < skipped[k].stop
        /\ \A k \in 1..Len(skipped) :
              IsWhitespaceSpan(skipped[k]) \/ IsLineComment(skipped[k])
                \/ IsBlockComment(skipped[k])
        /\ \A k \in 1..Len(lexResult.items) :
              /\ source[lexResult.items[k].start + 1] \notin {13, 10, 12, 11, 9, 32}
              /\ Slice(lexResult.items[k].start, lexResult.items[k].start + 2) # <<47, 47>>
              /\ ~IsBlockComment(lexResult.items[k])

\* tokens() has returned one token after skipping a block comment
C8_Witness ==
    /\ lexResult.type = "Array"
    /\ Len(lexResult.items) = 1
    /\ Len(skipped) = 1
    /\ IsBlockComment(skipped[1])

\* the keys listed in the keyword table that spell the text
ListedKeys(txt) == {key \in DOMAIN keywords : Units(key) = txt}

\* C9 as stated: every token taken at a lexeme of the identifier shape spans
\* the greedy match, and its kind is the keyword table's entry when the
\* lexeme is a key listed in the table and Identifier otherwise.
C9_KeywordOrIdentifier ==
    \A k \in 1..Len(lexed) :
        matchIdentifier(Slice(lexed[k].start, Len(source))) > 0 =>
            /\ lexed[k].stop - lexed[k].start
                  = matchIdentifier(Slice(lexed[k].start, Len(source)))
            /\ lexed[k].type = IF ListedKeys(lexed[k].text) # {}
                               THEN keywords[CHOOSE key \in ListedKeys(lexed[k].text) : TRUE]
                               ELSE "Identifier"

\* the kinds of the operator table
OperatorKinds == {operatorEntries[i][2] : i \in 1..Len(operatorEntries)}

\* the keys of the operator table that the source continues with at an offset
KeysAt(offset) ==
    {i \in 1..Len(operatorEntries) :
        startsWith(Slice(offset, Len(source)), operatorEntries[i][1])}

\* tokens() has returned exactly one token, of this kind, for this source
LexesAsOne(txt, kind) ==
    source = Units(txt) =>
        /\ lexResult.type \in {"null", "Array"}
        /\ lexResult.type = "Array" =>
              lexResult.items = <<Token(kind, Units(txt), 0, Len(source))>>

\* C10: the text of every token of an operator kind is the longest key of
\* the operator table that the source continues with at the token's start,
\* and the token has that key's kind; >>>=, <<, .. and ... are one token each.
C10_LongestOperator ==
    /\ \A k \in 1..Len(lexed) :
          lexed[k].type \in OperatorKinds =>
              \E i \in KeysAt(lexed[k].start) :
                  /\ lexed[k].text = operatorEntries[i][1]
                  /\ lexed[k].type = operatorEntries[i][2]
                  /\ lexed[k].stop = lexed[k].start + Len(operatorEntries[i][1])
                  /\ \A j \in KeysAt(lexed[k].start) :
                        Len(operatorEntries[j][1]) <= Len(operatorEntries[i][1])
    /\ LexesAsOne(">>>=", "UnsignedRightShiftAssignOperator")
    /\ LexesAsOne("<<", "LeftShiftOperator")
    /\ LexesAsOne("..", "ExclusiveRangeOperator")
    /\ LexesAsOne("...", "InclusiveRangeOperator")

\* >>>= has been lexed as one token
C10_Witness ==
    /\ source = Units(">>>=")
    /\ lexResult.type = "Array"
    /\ Len(lexResult.items) = 1
    /\ lexResult.items[1].type = "UnsignedRightShiftAssignOperator"

\* The source is a string literal whose first backslash comes after characters
\* other than its quote: the 1-based index of that backslash, 0 otherwise.
FirstEscape ==
    IF /\ Len(source) > 0
       /\ source[1] \in {39, 34}
       /\ \E i \in 2..Len(source) :
             /\ source[i] = 92
             /\ \A j \in 2..(i - 1) : source[j] \notin {92, source[1]}
    THEN CHOOSE i \in 2..Len(source) :
             /\ source[i] = 92
             /\ \A j \in 2..(i - 1) : source[j] \notin {92, source[1]}
    ELSE 0

\* the first backslash is followed by this letter; the string has been lexed
EscapeLexed(letter) ==
    /\ text # source
    /\ FirstEscape > 0
    /\ FirstEscape < Len(source)
    /\ source[FirstEscape + 1] = letter

\* the source character at an index is one of 0-9 and A-F
UpperHexAt(i) == i <= Len(source) /\ source[i] \in (48..57) \cup (65..70)

\* the value of the uppercase hexadecimal digits at indices from..to
RECURSIVE UpperHexValue(_, _)
UpperHexValue(from, to) ==
    IF to < from THEN 0
    ELSE 16 * UpperHexValue(from, to - 1)
         + (IF source[to] <= 57 THEN source[to] - 48 ELSE source[to] - 55)

\* the error returned at the first escape: its stop is the offset after the
\* backslash and the letter
EscapeError(message) == LexerError(message, Null, 0, FirstEscape + 1)

\* C11: when \x is followed by two uppercase hexadecimal digits HH the
\* character 0xHH is appended to the text at that place and lexing does not
\* stop there; followed by anything else, lexing returns the LexerError
\* "Invalid or lowercase hexadecimal escape sequence".
C11_HexEscape ==
    EscapeLexed(120) =>
        IF UpperHexAt(FirstEscape + 2) /\ UpperHexAt(FirstEscape + 3)
        THEN /\ lexResult.type = "LexerError" => lexResult.stop >= FirstEscape + 3
             /\ lexed = <<>> => lexResult.type = "LexerError"
             /\ lexed # <<>> =>
                   lexed[1].text[FirstEscape - 1]
                       = UpperHexValue(FirstEscape + 2, FirstEscape + 3)
        ELSE /\ lexed = <<>>
             /\ lexResult
                   = EscapeError("Invalid or lowercase hexadecimal escape sequence")

\* '\x1F' has been lexed into the text of one character, 0x1F
C11_Witness ==
    /\ EscapeLexed(120)
    /\ lexed # <<>>
    /\ lexed[1].text = <<31>>
    /\ lexed[1].stop = 6

\* the first backslash is followed by u and four uppercase hexadecimal digits
ValidUnicode == \A i \in (FirstEscape + 2)..(FirstEscape + 5) : UpperHexAt(i)

\* the 1-based index of the first } after the { of a braced escape, 0 when
\* there is none
FirstClose ==
    IF \E i \in (FirstEscape + 3)..Len(source) : source[i] = 125
    THEN CHOOSE i \in (FirstEscape + 3)..Len(source) :
             source[i] = 125 /\ \A j \in (FirstEscape + 3)..(i - 1) : source[j] # 125
    ELSE 0

\* the first backslash is followed by u, {, one or more uppercase hexadecimal
\* digits and }
ValidBracedUnicode ==
    /\ FirstEscape + 2 <= Len(source)
    /\ source[FirstEscape + 2] = 123
    /\ FirstClose > FirstEscape + 3
    /\ \A i \in (FirstEscape + 3)..(FirstClose - 1) : UpperHexAt(i)

\* C12 as stated: a \u escape that is neither four uppercase hexadecimal
\* digits nor { one or more uppercase hexadecimal digits } makes lexing
\* return a LexerError.
C12_UnicodeEscapeRejected ==
    (EscapeLexed(117) /\ ~ValidUnicode /\ ~ValidBracedUnicode) =>
        lexed = <<>> /\ lexResult.type = "LexerError"

\* the number written by the uppercase hexadecimal digits at indices from..to,
\* every number above 0x10FFFF being given as 0x110000
RECURSIVE BracedValue(_, _)
BracedValue(from, to) ==
    IF to < from THEN 0
    ELSE IF 16 * BracedValue(from, to - 1)
            + (IF source[to] <= 57 THEN source[to] - 48 ELSE source[to] - 55) > 1114111
         THEN 1114112
         ELSE 16 * BracedValue(from, to - 1)
              + (IF source[to] <= 57 THEN source[to] - 48 ELSE source[to] - 55)

\* the UTF-16 code units of a code point
CodePoint(v) ==
    IF v < 65536 THEN <<v>>
    ELSE <<55296 + ((v - 65536) \div 1024), 56320 + ((v - 65536) % 1024)>>

\* C13 as stated: for a braced escape \u{H...} of value v, if v <= 0x10FFFF
\* the text of the token holds the code point v at that place and lexing does
\* not stop there, and if v > 0x10FFFF lexing returns the LexerError
\* "Out of range unicode escape sequence".
C13_BracedCodePoint ==
    (EscapeLexed(117) /\ ValidBracedUnicode) =>
        IF BracedValue(FirstEscape + 3, FirstClose - 1) <= 1114111
        THEN /\ lexResult.type = "LexerError" => lexResult.stop >= FirstClose
             /\ lexed = <<>> => lexResult.type = "LexerError"
             /\ lexed # <<>> =>
                   /\ Len(lexed[1].text) >= FirstEscape - 2
                         + Len(CodePoint(BracedValue(FirstEscape + 3, FirstClose - 1)))
                   /\ SubSeq(lexed[1].text, FirstEscape - 1, FirstEscape - 2
                         + Len(CodePoint(BracedValue(FirstEscape + 3, FirstClose - 1))))
                         = CodePoint(BracedValue(FirstEscape + 3, FirstClose - 1))
        ELSE /\ lexed = <<>>
             /\ lexResult = LexerError("Out of range unicode escape sequence", Null, 0,
                                       FirstEscape + 2)

\* the source is an opening quote followed only by characters that are
\* neither that quote nor a backslash
OpenString ==
    /\ Len(source) > 0
    /\ source[1] \in {39, 34}
    /\ \A i \in 2..Len(source) : source[i] \notin {92, source[1]}

\* the source is an opening quote, characters that are neither that quote nor
\* a backslash, and a backslash
OpenEscape ==
    /\ Len(source) > 1
    /\ source[1] \in {39, 34}
    /\ source[Len(source)] = 92
    /\ \A i \in 2..(Len(source) - 1) : source[i] \notin {92, source[1]}

\* what holds in every state
ErrorsOfStrings ==
    /\ lexResult.type \in {"null", "Array", "LexerError"}
    /\ (OpenString /\ text # source) =>
          /\ lexed = <<>>
          /\ lexResult = LexerError("Unterminated string literal", Null, 0, Len(source))
    /\ (source \in {<<39, 92, 39>>, <<34, 92, 34>>} /\ text # source) =>
          /\ lexed = <<>>
          /\ lexResult = LexerError("Unterminated string literal", Null, 0, 3)
    /\ (OpenEscape /\ text # source) =>
          /\ lexed = <<>>
          /\ lexResult = LexerError("Unexpected end of escape", Null, 0, Len(source))
    /\ (Len(source) > 0 /\ source[Len(source)] = 92) => lexResult.type # "Array"

\* what holds of every step
ErrorAborts ==
    /\ (/\ lexResult = Null
        /\ Lexer_index(TheLexer) < Len(source)
        /\ Lexer_consume(TheLexer).r.type = "LexerError") =>
          /\ lexResult' = Lexer_consume(TheLexer).r
          /\ lexed' = lexed
    /\ lexResult.type = "LexerError" => lexResult' = lexResult

\* C14: the first LexerError a consume step yields is what tokens() returns,
\* and nothing is lexed after it; a string literal that its quote does not
\* close before the end of the input yields "Unterminated string literal",
\* and a backslash at the end of the input yields an error.
C14_AllOrNothing == []ErrorsOfStrings /\ [][ErrorAborts]_vars

\* an unterminated string literal of three characters has been reported
C14_Witness ==
    /\ OpenString
    /\ Len(source) = 3
    /\ lexResult = LexerError("Unterminated string literal", Null, 0, 3)

\* the kinds of the assignment operators
AssignmentKinds == {AssignmentOperators[i] : i \in 1..Len(AssignmentOperators)}

\* the tree is an AssignmentExpression of a TernaryExpression alone, or of a
\* TernaryExpression, one assignment operator and a TernaryExpression
OneAssignment(t) ==
    \/ /\ Len(t.items) = 1
       /\ t.items[1].type = "TernaryExpression"
    \/ /\ Len(t.items) = 3
       /\ t.items[1].type = "TernaryExpression"
       /\ t.items[2].type \in AssignmentKinds
       /\ t.items[3].type = "TernaryExpression"

\* C15: every AssignmentExpression of a tree returned holds one
\* TernaryExpression, or two with one assignment operator between them;
\* ast() returns a Body for `a = b;`, whose AssignmentExpression holds a, the
\* = token and b, and a ParserError for `a = b = c;`, the second = being the
\* first token that is not consumed.
C15_OneAssignment ==
    /\ IsTree(call.result) =>
          \A t \in Nodes(call.result) :
              t.type = "AssignmentExpression" => OneAssignment(t)
    /\ (call.op = "ast" /\ source = Units("a = b;")) =>
          /\ IsBody(call.result)
          /\ \E t \in Nodes(call.result) :
                /\ t.type = "AssignmentExpression"
                /\ Len(t.items) = 3
                /\ t.items[1].start = 0
                /\ t.items[2] = Token("AssignOperator", Units("="), 2, 3)
                /\ t.items[3].start = 4
    /\ (call.op = "ast" /\ source = Units("a = b = c;")) =>
          /\ call.result.type = "ParserError"
          /\ call.result.start = 6
          /\ stack[1] # <<>>

\* ast() has returned the Body of `a = b;`
C15_Witness ==
    /\ call.op = "ast"
    /\ source = Units("a = b;")
    /\ IsBody(call.result)
    /\ \E t \in Nodes(call.result) : t.type = "AssignmentExpression" /\ Len(t.items) = 3

\* the IfStatement trees of a tree
IfStatements(root) == {t \in Nodes(root) : t.type = "IfStatement"}

\* the statement that a Statement tree wraps
Wrapped(statement) == statement.items[1]

\* C16: for `if (a) if (b) x; else y;` ast() returns a Body with two
\* IfStatement trees, the outer one with two children (condition, statement)
\* and the inner one, which is that statement, with three (condition,
\* statement, else statement); and in every tree returned, an IfStatement
\* whose statement is itself an IfStatement has an else statement only if
\* that inner IfStatement has one.
C16_DanglingElse ==
    /\ (call.op = "ast" /\ source = Units("if (a) if (b) x; else y;")) =>
          /\ IsBody(call.result)
          /\ Cardinality(IfStatements(call.result)) = 2
          /\ \E outer \in IfStatements(call.result) :
                /\ outer.start = 0
                /\ Len(outer.items) = 2
                /\ Wrapped(outer.items[2]).type = "IfStatement"
                /\ Wrapped(outer.items[2]).start = 7
                /\ Len(Wrapped(outer.items[2]).items) = 3
                /\ Wrapped(outer.items[2]).items[3].start = 22
    /\ IsTree(call.result) =>
          \A t \in IfStatements(call.result) :
              (Wrapped(t.items[2]).type = "IfStatement" /\ Len(t.items) = 3) =>
                  Len(Wrapped(t.items[2]).items) = 3

\* ast() has returned the Body of `if (a) if (b) x; else y;`
C16_Witness ==
    /\ call.op = "ast"
    /\ source = Units("if (a) if (b) x; else y;")
    /\ IsBody(call.result)
    /\ \E t \in IfStatements(call.result) : Len(t.items) = 3

\* an error with this message was passed to throw() during the call
Thrown(message) == \E i \in 1..Len(thrown) : thrown[i].message = message

\* C17: parseLiteralValue on `(int)x` returns a LiteralValue of a TypeCast of
\* the type and the LiteralValue x, all tokens consumed; on `(x);` parseCast
\* fails for want of a value after `(x)`, and parseLiteralValue returns the
\* LiteralValue of the ExpressionSequence x that spans `(x)`, leaving `;`;
\* a parseCast that fails leaves the tokens as they were; every TypeCast of a
\* tree returned holds a type and a LiteralValue.
C17_CastOrParenthesis ==
    /\ (call.op = "parseLiteralValue" /\ source = Units("(int)x")) =>
          /\ IsTree(call.result)
          /\ call.result.type = "LiteralValue"
          /\ Len(call.result.items) = 1
          /\ call.result.items[1].type = "TypeCast"
          /\ call.result.items[1].start = 0
          /\ Len(call.result.items[1].items) = 2
          /\ call.result.items[1].items[1].type = "UnaryType"
          /\ call.result.items[1].items[1].start = 1
          /\ call.result.items[1].items[2].type = "LiteralValue"
          /\ call.result.items[1].items[2].items = <<Token("Identifier", Units("x"), 5, 6)>>
          /\ stack = <<<<>>>>
    /\ (call.op = "parseLiteralValue" /\ source = Units("(x);")) =>
          /\ Thrown("Expected cast value")
          /\ IsTree(call.result)
          /\ call.result.type = "LiteralValue"
          /\ call.result.start = 0
          /\ call.result.stop = 3
          /\ Len(call.result.items) = 1
          /\ call.result.items[1].type = "ExpressionSequence"
          /\ call.result.items[1].start = 1
          /\ call.result.items[1].stop = 2
          /\ \A t \in Nodes(call.result) : t.type # "TypeCast"
          /\ stack = <<<<Token("SemicolonPunctuator", Units(";"), 3, 4)>>>>
    /\ (call.op = "parseCast" /\ call.result = NoMatch) => stack = call.entry
    /\ (call.op = "parseCast" /\ source = Units("(x);")) => call.result = NoMatch
    /\ IsTree(call.result) =>
          \A t \in Nodes(call.result) :
              t.type = "TypeCast" =>
                  /\ Len(t.items) = 2
                  /\ t.items[1].type = "UnaryType"
                  /\ t.items[2].type = "LiteralValue"

\* parseLiteralValue has returned the parenthesized x of `(x);` after
\* parseCast failed behind the `)`
C17_Witness ==
    /\ call.op = "parseLiteralValue"
    /\ source = Units("(x);")
    /\ Thrown("Expected cast value")
    /\ IsTree(call.result)
    /\ call.result.items[1].type = "ExpressionSequence"

\* the tokens the call started with
EntryTokens == call.entry[Len(call.entry)]

RangeOperators == {"InclusiveRangeOperator", "ExclusiveRangeOperator"}

\* C18: parseRangeExpression returns a RangeExpression tree whenever the
\* tokens begin with a range operator, in particular for `..end`, `start..`
\* and a bare `..`
C18_RangeAnyPart ==
    /\ (call.op = "parseRangeExpression" /\ EntryTokens # <<>>
            /\ EntryTokens[1].type \in RangeOperators) =>
          /\ IsTree(call.result)
          /\ call.result.type = "RangeExpression"
    /\ (call.op = "parseRangeExpression"
            /\ source \in {Units("..end"), Units("start.."), Units("..")}) =>
          /\ IsTree(call.result)
          /\ call.result.type = "RangeExpression"

\* the items at odd places are trees of the operand type and those at even
\* places are tokens of the operator kinds
Alternates(t, operand, kinds) ==
    \A i \in 1..Len(t.items) :
        IF i % 2 = 1 THEN t.items[i].type = operand ELSE t.items[i].type \in kinds

\* C19: parseTermExpression on `1 + 2 * 3` returns a TermExpression of three
\* children, the FactorExpression of 1, the + token and a FactorExpression
\* that holds 2, the * token and 3; ast() on `1 * 2 + 3;` gives one
\* TermExpression, of the FactorExpression 1 * 2, the + token and the
\* FactorExpression of 3; in every tree returned the children of a
\* TermExpression alternate between FactorExpressions and + or - tokens, and
\* those of a FactorExpression between RangeExpressions and *, / or % tokens.
C19_FactorInsideTerm ==
    /\ (call.op = "parseTermExpression" /\ source = Units("1 + 2 * 3")) =>
          /\ IsTree(call.result)
          /\ call.result.type = "TermExpression"
          /\ Len(call.result.items) = 3
          /\ call.result.items[1].type = "FactorExpression"
          /\ call.result.items[1].start = 0
          /\ Len(call.result.items[1].items) = 1
          /\ call.result.items[2] = Token("PlusOperator", Units("+"), 2, 3)
          /\ call.result.items[3].type = "FactorExpression"
          /\ Len(call.result.items[3].items) = 3
          /\ call.result.items[3].items[1].type = "RangeExpression"
          /\ call.result.items[3].items[1].start = 4
          /\ call.result.items[3].items[2] = Token("TimesOperator", Units("*"), 6, 7)
          /\ call.result.items[3].items[3].type = "RangeExpression"
          /\ call.result.items[3].items[3].start = 8
          /\ stack = <<<<>>>>
    /\ (call.op = "ast" /\ source = Units("1 * 2 + 3;")) =>
          /\ IsBody(call.result)
          /\ \E t \in Nodes(call.result) : t.type = "TermExpression"
          /\ \A t \in Nodes(call.result) :
                t.type = "TermExpression" =>
                    /\ Len(t.items) = 3
                    /\ Len(t.items[1].items) = 3
                    /\ t.items[1].items[2] = Token("TimesOperator", Units("*"), 2, 3)
                    /\ t.items[2] = Token("PlusOperator", Units("+"), 6, 7)
                    /\ Len(t.items[3].items) = 1
    /\ IsTree(call.result) =>
          \A t \in Nodes(call.result) :
              /\ t.type = "TermExpression" =>
                    Alternates(t, "FactorExpression", {"PlusOperator", "MinusOperator"})
              /\ t.type = "FactorExpression" =>
                    /\ Len(t.items) % 2 = 1
                    /\ Alternates(t, "RangeExpression",
                                  {"TimesOperator", "DivideOperator", "ModuloOperator"})

\* parseTermExpression has returned the TermExpression of `1 + 2 * 3`
C19_Witness ==
    /\ call.op = "parseTermExpression"
    /\ source = Units("1 + 2 * 3")
    /\ IsTree(call.result)
    /\ Len(call.result.items) = 3
    /\ Len(call.result.items[3].items) = 3

\* C20: for `val x = ;`, whose = is at offset 6, ast() returns the
\* ParserError "Expected expression" that starts at the `;` at offset 8;
\* "Expected statement" and "Unexpected token", both starting at offset 0, are
\* thrown after it and do not replace it.
C20_ErrorLocality ==
    (call.op = "ast" /\ source = Units("val x = ;")) =>
        /\ call.result.type = "ParserError"
        /\ call.result.start >= 6
        /\ call.result = ParserError("Expected expression", Null, 8, 9)
        /\ call.result = error
        /\ \E i \in 1..Len(thrown) :
              /\ thrown[i] = call.result
              /\ \E j \in (i + 1)..Len(thrown) :
                    /\ thrown[j].message = "Expected statement"
                    /\ thrown[j].start = 0
        /\ thrown[Len(thrown)].message = "Unexpected token"
        /\ thrown[Len(thrown)].start = 0

\* ast() has returned an error for `val x = ;` after it threw "Unexpected
\* token" at the first token
C20_Witness ==
    /\ call.op = "ast"
    /\ source = Units("val x = ;")
    /\ call.result.type = "ParserError"
    /\ thrown[Len(thrown)].message = "Unexpected token"

\* the characters between the quotes of a token's span
Inner(t) == Slice(t.start + 1, t.stop - 1)

\* C21: of the tokens lexed, one that is not a StringLiteral has for text the
\* source between its start and its stop; the span of a StringLiteral begins
\* with a quote and ends with the same quote, and its text is the content
\* between them, decoded: the characters themselves when there is no
\* backslash among them, never longer than they are, and for the literals
\* '\n' and '\x1F' the one character the escape stands for.
C21_TextOfSpan ==
    /\ \A i \in 1..Len(lexed) :
          IF lexed[i].type # "StringLiteral"
          THEN Slice(lexed[i].start, lexed[i].stop) = lexed[i].text
          ELSE /\ lexed[i].stop >= lexed[i].start + 2
               /\ source[lexed[i].start + 1] \in {39, 34}
               /\ source[lexed[i].stop] = source[lexed[i].start + 1]
               /\ Len(lexed[i].text) <= Len(Inner(lexed[i]))
               /\ (\A j \in 1..Len(Inner(lexed[i])) : Inner(lexed[i])[j] # 92) =>
                     lexed[i].text = Inner(lexed[i])
    /\ (source = Units("'\\n'") /\ lexResult.type = "Array") =>
          lexed = <<Token("StringLiteral", <<10>>, 0, 4)>>
    /\ (source = Units("'\\x1F'") /\ lexResult.type = "Array") =>
          lexed = <<Token("StringLiteral", <<31>>, 0, 6)>>

\* tokens() has returned a StringLiteral with an escape in it and a token
\* after it
C21_Witness ==
    /\ lexResult.type = "Array"
    /\ Len(lexed) = 2
    /\ lexed[1].type = "StringLiteral"
    /\ Len(lexed[1].text) < Len(Inner(lexed[1]))
    /\ lexed[2].type # "StringLiteral"

\* the tree holds a value, MatchOptions and one Body, in this order
ValueOptionsBody(t) ==
    /\ Len(t.items) >= 2
    /\ t.items[1].type = "ExpressionSequence"
    /\ \A i \in 2..(Len(t.items) - 1) : t.items[i].type = "MatchOption"
    /\ t.items[Len(t.items)].type = "Body"

\* C22: every MatchStatement of a tree returned holds the value, then its
\* MatchOptions, then one Body; "Expected match options or fallback" is never
\* thrown; parseMatchStatement on `match (n) { }` returns the value and an
\* empty Body with every token consumed; for
\* `match (n) { 1 => a; 2 => b; c; }` ast() returns a Body whose
\* MatchStatement holds the value, the MatchOptions that start at 1 and at 2,
\* and a Body of the one statement `c;`.
C22_MatchFallback ==
    /\ ~Thrown("Expected match options or fallback")
    /\ IsTree(call.result) =>
          \A t \in Nodes(call.result) : t.type = "MatchStatement" => ValueOptionsBody(t)
    /\ (call.op = "parseMatchStatement" /\ source = Units("match (n) { }")) =>
          /\ IsTree(call.result)
          /\ call.result.type = "MatchStatement"
          /\ Len(call.result.items) = 2
          /\ call.result.items[1].type = "ExpressionSequence"
          /\ call.result.items[2].type = "Body"
          /\ call.result.items[2].items = <<>>
          /\ stack = <<<<>>>>
    /\ (call.op = "ast" /\ source = Units("match (n) { 1 => a; 2 => b; c; }")) =>
          /\ IsBody(call.result)
          /\ \E t \in Nodes(call.result) :
                /\ t.type = "MatchStatement"
                /\ Len(t.items) = 4
                /\ t.items[2].type = "MatchOption"
                /\ t.items[2].start = 12
                /\ t.items[3].type = "MatchOption"
                /\ t.items[3].start = 20
                /\ t.items[4].type = "Body"
                /\ Len(t.items[4].items) = 1
                /\ t.items[4].items[1].type = "Statement"
                /\ t.items[4].items[1].start = 28
                /\ t.items[4].items[1].stop = 31

\* ast() has returned the tree of a match statement with two options and a
\* fallback statement
C22_Witness ==
    /\ call.op = "ast"
    /\ source = Units("match (n) { 1 => a; 2 => b; c; }")
    /\ IsBody(call.result)
    /\ \E t \in Nodes(call.result) : t.type = "MatchStatement" /\ Len(t.items) = 4

\* the place of an operator in the order the lexer scans the table
Place(key) == CHOOSE i \in 1..Len(operatorEntries) : operatorEntries[i][1] = Units(key)

\* the operators come in the table in the order of the sequence
InOrder(keys) == \A i \in 1..(Len(keys) - 1) : Place(keys[i]) < Place(keys[i + 1])

\* the orderings that do not involve >>> and >>= together
ListedOrderings ==
    /\ InOrder(<<"<<=", "<<", "<">>)
    /\ InOrder(<<">>>=", ">>>", ">>", ">=", ">">>)
    /\ InOrder(<<">>>=", ">>=", ">>", ">=", ">">>)
    /\ \A pair \in {<<"+=", "+">>, <<"-=", "-">>, <<"*=", "*">>, <<"/=", "/">>,
                    <<"%=", "%">>, <<"&=", "&">>, <<"|=", "|">>, <<"^=", "^">>,
                    <<"?=", "?">>, <<"==", "=">>, <<"=>", "=">>, <<"<=", "<">>,
                    <<"?:", "?">>, <<"?.", "?">>} : InOrder(pair)
    /\ InOrder(<<"...", "..", ".">>)

\* an operator comes before every operator that is a shorter prefix of it
LongerFirst ==
    \A i, j \in 1..Len(operatorEntries) :
        (i # j /\ startsWith(operatorEntries[i][1], operatorEntries[j][1])) => i < j

\* C23 as stated: the table that tokens() scans has every ordering listed,
\* >>> before >>= among them
C23_ListedOrder ==
    lexResult = Null =>
        /\ ListedOrderings
        /\ InOrder(<<">>>=", ">>>", ">>=", ">>", ">=", ">">>)

\* C23: an operator of the table comes before every operator that is a
\* shorter prefix of it, so that the first entry the text starts with is the
\* longest one; the orderings listed hold, but for >>>, which comes after >>=
\* (neither is a prefix of the other); and the text `>>>=` is lexed as one
\* token.
C23_LongerFirst ==
    /\ LongerFirst
    /\ ListedOrderings
    /\ Place(">>=") < Place(">>>")
    /\ (source = Units(">>>=") /\ lexResult.type = "Array") =>
          lexed = <<Token("UnsignedRightShiftAssignOperator", Units(">>>="), 0, 4)>>

\* tokens() has returned the one token of `>>>=`
C23_Witness ==
    /\ source = Units(">>>=")
    /\ lexResult.type = "Array"
    /\ Len(lexed) = 1

\* the start of the first token of a view or, when it is empty, that of the
\* last token of a token list, 0 when that list is empty as well
FirstStart(view, tokens) ==
    IF view # <<>> THEN view[1].start
    ELSE IF tokens # <<>> THEN tokens[Len(tokens)].start
    ELSE 0

\* the starts of the tokens of a view
Starts(view) == {view[i].start : i \in 1..Len(view)}

\* C24 as stated: the tree returned has for start the start of the first
\* token of the view on entry and for stop that of the first token left, and
\* for an empty view the start of the last token of the whole input
C24_SpanOfInput ==
    IsTree(call.result) =>
        /\ call.result.start = FirstStart(EntryView, lexResult.items)
        /\ call.result.stop = FirstStart(CurrentView, lexResult.items)

\* C24: the tree returned has for start the start of the first token of the
\* view on entry and for stop that of the first token left unconsumed; for an
\* empty view the value is the start of the last token of the bottom view as
\* it was on entry, which is the whole input on a parser not used before and
\* what earlier calls left of it afterwards, and 0 when that is empty; a tree
\* that consumes the last token stops at the start of that token; the starts
\* and stops of the trees inside it are among these values.
C24_SpanOfView ==
    IsTree(call.result) =>
        /\ call.result.start = FirstStart(EntryView, call.entry[1])
        /\ call.result.stop = FirstStart(CurrentView, call.entry[1])
        /\ (ncalls = 1 /\ Len(call.entry) = 1) => call.entry[1] = lexResult.items
        /\ (EntryView # <<>> /\ CurrentView = <<>>) =>
              call.result.stop = EntryView[Len(EntryView)].start
        /\ \A t \in Nodes(call.result) :
              /\ t.start \in Starts(EntryView) \cup {FirstStart(<<>>, call.entry[1])}
              /\ t.stop \in Starts(EntryView) \cup {FirstStart(<<>>, call.entry[1])}
              /\ t.start <= t.stop

\* a second call has returned a tree on a parser whose tokens were all
\* consumed by the first
C24_Witness ==
    /\ ncalls = 2
    /\ IsTree(call.result)
    /\ lexResult.items # <<>>
    /\ call.entry = <<<<>>>>
    /\ call.result.start = 0
    /\ call.result.stop = 0

\* a step of tokens() made before the end of the source returns a LexerError
\* or leaves a text that is shorter
Advances ==
    (lexResult = Null /\ text # <<>>) =>
        \/ lexResult'.type = "LexerError"
        \/ lexResult' = Null /\ Len(text') < Len(text)

\* a step of tokens() made at the end of the source returns the tokens
ReturnsAtEnd ==
    (lexResult = Null /\ text = <<>>) =>
        lexResult' = Array(lexed)

\* C25: tokens() returns: each consume() made before the end of the source
\* returns a LexerError or moves the cursor forward, at the end of the source
\* tokens() returns the tokens, after which index() is the length of the
\* source, and in every run tokens() has returned at some point.
C25_TokensTerminates ==
    /\ [][Advances /\ ReturnsAtEnd]_vars
    /\ [](lexResult.type = "Array" => Lexer_index(TheLexer) = Len(source))
    /\ <>(lexResult # Null)

\* tokens() has returned the tokens after three steps of its loop or more
C25_Witness ==
    /\ lexResult.type = "Array"
    /\ Len(lexed) + Len(skipped) >= 3
    /\ Lexer_index(TheLexer) = Len(source)

\* the number of tokens left to a parser object
Left(p) == Len(current(p))

\* what the innermost frame hands to its caller, once it has returned
Handed(after) ==
    IF after.frames = <<>> THEN after.result
    ELSE after.frames[Len(after.frames)].answers[Len(after.frames[Len(after.frames)].answers)]

\* One step of the call stack makes progress: a production that is called is
\* not already running from the same token, and a production other than
\* parseBody that returns a tree has consumed a token.
Progresses(before, after) ==
    IF Len(after.frames) > Len(before.frames)
    THEN \A i \in 1..Len(before.frames) :
             before.frames[i].name = after.frames[Len(after.frames)].name =>
                 Left(before.frames[i].p) > Left(after.frames[Len(after.frames)].p)
    ELSE (IsTree(Handed(after).r) /\ before.frames[Len(before.frames)].name # "parseBody") =>
             Left(Handed(after).p) < Left(before.frames[Len(before.frames)].p)

Watched(w) == [m |-> Step(w.m), ok |-> w.ok /\ Progresses(w.m, Step(w.m))]

\* the steps of the call stack, each of them watched
RECURSIVE Watch(_, _)
Watch(w, k) ==
    IF w.m.frames = <<>> THEN w
    ELSE IF k = 0 THEN Watched(w)
    ELSE Watch(Watch(w, k - 1), k - 1)

\* parseBody() on the parser as it is
WatchedBody ==
    Watch([m |-> [frames |-> <<Frame("parseBody", Object(TheParser))>>, result |-> Null],
           ok |-> TRUE], MaxDoublings)

\* C26: on a parser just constructed parseBody(), which is what ast() runs,
\* comes to an end, every production other than parseBody that returns a tree
\* in its course has consumed a token, and none is called while it runs from
\* the same token; every call that was made has returned, and one of a
\* production other than parseBody that returned a tree left fewer tokens
\* than it found.
C26_AstTerminates ==
    /\ (stack # <<>> /\ ncalls = 0) =>
          /\ WatchedBody.m.frames = <<>>
          /\ WatchedBody.ok
    /\ call.op # "none" => call.result # Null
    /\ (call.op \notin {"none", "ast", "parseBody"} /\ IsTree(call.result)) =>
          Len(CurrentView) < Len(EntryView)

\* ast() has returned the Body of two statements
C26_Witness ==
    /\ call.op = "ast"
    /\ IsBody(call.result)
    /\ Len(call.result.items) >= 2
    /\ Len(call.entry[1]) >= 4

\* the tokens that are leaves of a tree
Leaves(root) ==
    UNION {{t.items[i] : i \in {j \in 1..Len(t.items) : IsToken(t.items[j])}} : t \in Nodes(root)}

\* C27: the tokens that are leaves of the tree a production returns are
\* among those it found and not among those it leaves; parseTermExpression
\* on `a +` returns a TermExpression of one child and leaves the +, and
\* parseFactorExpression on `a *` a FactorExpression of one child
C27_LeavesConsumed ==
    /\ IsTree(call.result) =>
          \A t \in Leaves(call.result) :
              /\ t.start \in Starts(EntryView)
              /\ t.start \notin Starts(CurrentView)
    /\ (call.op = "parseTermExpression" /\ source = Units("a +")) =>
          /\ IsTree(call.result)
          /\ Len(call.result.items) = 1
          /\ CurrentView = <<Token("PlusOperator", Units("+"), 2, 3)>>
    /\ (call.op = "parseFactorExpression" /\ source = Units("a *")) =>
          /\ IsTree(call.result)
          /\ Len(call.result.items) = 1
          /\ CurrentView = <<Token("TimesOperator", Units("*"), 2, 3)>>

\* the stack of a parser object is not empty, each of its views is the tokens
\* from some index on, and each view but the bottom one is the view beneath
\* it from some index on
Aligned(p, tokens) ==
    /\ p.stack # <<>>
    /\ \A i \in 1..Len(p.stack) : IsSuffix(p.stack[i], tokens)
    /\ \A i \in 2..Len(p.stack) : IsSuffix(p.stack[i], p.stack[i - 1])

\* the parser object at the call or the return that a step has made
Newest(after) ==
    IF after.frames = <<>> THEN after.result.p
    ELSE IF after.frames[Len(after.frames)].answers = <<>>
         THEN after.frames[Len(after.frames)].p
    ELSE Handed(after).p

Surveyed(w, tokens) ==
    [m |-> Step(w.m), ok |-> w.ok /\ Aligned(Newest(Step(w.m)), tokens)]

\* the steps of the call stack, the parser object looked at after each
RECURSIVE Survey(_, _, _)
Survey(w, tokens, k) ==
    IF w.m.frames = <<>> THEN w
    ELSE IF k = 0 THEN Surveyed(w, tokens)
    ELSE Survey(Survey(w, tokens, k - 1), tokens, k - 1)

\* parseBody() on the parser as it is
SurveyedBody ==
    Survey([m |-> [frames |-> <<Frame("parseBody", Object(TheParser))>>, result |-> Null],
            ok |-> TRUE], lexResult.items, MaxDoublings)

\* C28: at each call and each return in the course of the parseBody() that
\* ast() runs on a parser just constructed, the stack is not empty, every
\* view is the token sequence from some index on, and every view above the
\* bottom one is the view beneath it from some index on; the same holds of
\* the stack that a call leaves.
C28_ViewsAreIndices ==
    /\ (stack # <<>> /\ ncalls = 0) =>
          /\ SurveyedBody.m.frames = <<>>
          /\ SurveyedBody.ok
    /\ stack # <<>> => Aligned(TheParser, lexResult.items)

\* ast() has returned an error with tokens consumed by the productions that
\* succeeded before it
C28_Witness ==
    /\ call.op = "ast"
    /\ call.result.type = "ParserError"
    /\ stack[1] # <<>>
    /\ Len(stack[1]) < Len(lexResult.items)


\* no */ begins at this offset or after it
NoCloseFrom(o) == \A k \in o..(Len(source) - 2) : Slice(k, k + 2) # <<42, 47>>

\* a /* begins at this offset and no */ follows it
OpenAt(o) == Slice(o, o + 2) = <<47, 42>> /\ NoCloseFrom(o + 2)

\* a span that was skipped and begins with /* ends with the first */ after it
ClosedComments ==
    \A i \in 1..Len(skipped) :
        Slice(skipped[i].start, skipped[i].start + 2) = <<47, 42>> =>
            /\ skipped[i].stop >= skipped[i].start + 4
            /\ Slice(skipped[i].stop - 2, skipped[i].stop) = <<42, 47>>
            /\ \A k \in (skipped[i].start + 2)..(skipped[i].stop - 3) :
                  Slice(k, k + 2) # <<42, 47>>

\* the token lexed where a /* begins that nothing closes is the / alone, and
\* the token after it begins at the * and is of one of the kinds
OpenLexedAs(kinds) ==
    \A i \in 1..Len(lexed) :
        OpenAt(lexed[i].start) =>
            /\ lexed[i] = Token("DivideOperator", <<47>>, lexed[i].start, lexed[i].start + 1)
            /\ i = Len(lexed) => lexResult = Null
            /\ i < Len(lexed) =>
                  /\ lexed[i + 1].start = lexed[i].start + 1
                  /\ lexed[i + 1].type \in kinds

\* no LexerError is reported at a /*
NoErrorAtOpen ==
    lexResult.type = "LexerError" =>
        Slice(lexResult.start, lexResult.start + 2) # <<47, 42>>

\* C30 as stated: the * of a /* that nothing closes is lexed as a
\* TimesOperator
C30_DivideTimes ==
    /\ ClosedComments
    /\ NoErrorAtOpen
    /\ OpenLexedAs({"TimesOperator"})

\* C30: a span skipped from a /* on ends with the first */ after it; where a
\* /* begins that no */ follows, no error is reported and nothing is
\* skipped: the / is lexed as a DivideOperator and lexing goes on from the *,
\* which is lexed as a TimesOperator, or with the = after it as a
\* TimesAssignOperator.
C30_DivideThenStar ==
    /\ ClosedComments
    /\ NoErrorAtOpen
    /\ OpenLexedAs({"TimesOperator", "TimesAssignOperator"})
    /\ \A i \in 1..(Len(lexed) - 1) :
          OpenAt(lexed[i].start) =>
              (lexed[i + 1].type = "TimesAssignOperator"
                  <=> Slice(lexed[i].start + 2, lexed[i].start + 3) = <<61>>)
    /\ \A i \in 1..Len(skipped) : ~OpenAt(skipped[i].start)

\* tokens() has returned the two tokens of `/*=`
C30_Witness ==
    /\ source = Units("/*=")
    /\ lexResult.type = "Array"
    /\ lexed = <<Token("DivideOperator", <<47>>, 0, 1),
                Token("TimesAssignOperator", <<42, 61>>, 1, 3)>>
====
